---- MODULE Spec2Model ----
(***************************************************************************)
(* Graph layout and traversal engine of the Cybernetic Design Network.     *)
(*                                                                         *)
(*  - getExplorationScore, getAdaptiveHierarchicalLayers                   *)
(*        (3D map: score derivation, BFS layering, adaptive reordering)    *)
(*  - randomizeConnections                                                 *)
(*        (2D network: random edge set with minimum degrees)               *)
(*                                                                         *)
(*  - CyberneticTopoMap                                                    *)
(*        (3D map: the session state and its event handlers)               *)
(*  - forceDirectedLayout                                                  *)
(*        (3D map: force simulation, normalization, publication)           *)
(*  - bfsPath, findNodePaths                                               *)
(*        (the two queue-based traversals)                                 *)
(*  - CyberneticDesignNetwork                                              *)
(*        (2D network: the session state, its handlers, propagateFeedback) *)
(*                                                                         *)
(* Pure functions are operators computed the way the code computes them;   *)
(* LayersSpec draws their inputs and applies them.  randomizeConnections   *)
(* is a loop over random draws and is modelled one draw per step           *)
(* (RandomizeSpec, and FairRandomizeSpec for termination).  SessionSpec is *)
(* a session of the 3D map, one event per step; StoreSpec applies its two  *)
(* store updates to any store; ScoreSpec applies getExplorationScore;      *)
(* TraverseSpec and LayoutSpec run the traversal and the layout one loop   *)
(* round per step; NormalizeSpec applies the normalization pass.  PathSpec *)
(* runs bfsPath and findNodePaths one loop round per step; NetSpec is a    *)
(* session of the 2D network, one event or timer per step; PulseSpec runs  *)
(* the cascades of propagateFeedback (FairPulseSpec: due timers fire).     *)
(***************************************************************************)
EXTENDS Integers, Sequences, FiniteSets, Bags, TLC

VARIABLES
    \* ---- getAdaptiveHierarchicalLayers(startId, links, explorationData, cyberneticMode)
    startId,          \* the start node of the traversal
    links,            \* RawLink[]: a sequence of [source, target] records
    explorationData,  \* Map<string, NodeExploration>: a function on the ids that have a record
    cyberneticMode,   \* the adaptive-mode flag the call was made with
    layers,           \* NodeLayer[] returned by the call
    lpc,              \* "input" before the call, "returned" after it
    \* ---- randomizeConnections()
    nodeIds,          \* processedNodes.map(n => n.id)
    newLinks,         \* Link[] under construction, kept as a bag of <<source, target>>
    usedPairs,        \* Set<string> of pair keys
    outgoingCount,    \* Map<string, number>
    incomingCount,    \* Map<string, number>
    targetNumLinks,   \* originalLinksRef.current.length
    attempts,         \* third pass attempt counter
    loopIdx,          \* position of the for-of loop of the running pass in nodeIds
    rpc,              \* "idle", "pass1", "pass2", "pass3", "returned"
    \* ---- CyberneticTopoMap: the state of one session of the 3D map
    \*      (links, explorationData and cyberneticMode above are shared with it)
    activeNode,          \* useState<string | null>(null)
    hierarchicalLayers,  \* useState<NodeLayer[]>([])
    previousLayers,      \* useState<NodeLayer[]>([])
    layout2D,            \* useState(() => forceDirectedLayout(nodes, links, false))
    showFeedback,        \* useState(false)
    feedbackNodeId,      \* useState<string | null>(null)
    timers,              \* pending setTimeout(..., 1500) callbacks, oldest first
    thrown,              \* TRUE once a handler has thrown a TypeError
    \* ---- getExplorationScore(nodeId, explorationData)
    scoreOut,            \* the score returned, as <<numerator, denominator>>
    \* ---- getAdaptiveHierarchicalLayers, one loop round per step
    trav,                \* the locals of the running call
    \* ---- forceDirectedLayout(nodes, links, randomize), one loop round per step
    positions,           \* the Map the running call builds
    lay,                 \* the locals of the running call
    \* ---- forceDirectedLayout: the normalization pass on its own
    finalPositions,      \* the positions the simulation loop has left
    returned,            \* the positions after the pass
    \* ---- bfsPath(startId, links) and findNodePaths(nodeId, links), one loop round per step
    bfs,                 \* the locals of the bfsPath call: visited, queue, path
    fnp,                 \* the locals of the findNodePaths call: visited, queue, path
    ppc,                 \* "idle", "bfsPath", "findNodePaths", "done"
    \* ---- CyberneticNetwork: the state of one session of the 2D network
    activeNodeRef,       \* useRef<string | null>(null)
    nodePath,            \* useState<string[]>([])
    currentLinks,        \* useState<Link[]>(processedLinks)
    isRandomized,        \* useState(false)
    originalLinksRef,    \* useRef<Link[]>([]), filled on the first render
    pulses               \* the running propagateFeedback cascades and their timers

layerVars == <<startId, links, explorationData, cyberneticMode, layers, lpc>>
randVars  == <<nodeIds, newLinks, usedPairs, outgoingCount, incomingCount,
               targetNumLinks, attempts, loopIdx, rpc>>
sessVars  == <<activeNode, hierarchicalLayers, previousLayers, layout2D,
               showFeedback, feedbackNodeId, timers, thrown>>
auxVars   == <<scoreOut, trav, positions, lay, finalPositions, returned>>
pathVars  == <<bfs, fnp, ppc>>
netVars   == <<activeNodeRef, nodePath, currentLinks, isRandomized, originalLinksRef, pulses>>
viewVars  == <<pathVars, netVars>>
otherVars == <<sessVars, auxVars, viewVars>>
vars == <<layerVars, randVars, otherVars>>

(***************************************************************************)
(* Bounds of the model.                                                    *)
(***************************************************************************)
\* longest edge list handed to the traversal
MaxLinks == 3
\* largest original link count (targetNumLinks) handed to randomizeConnections
MaxTargetLinks == 16

\* node ids of the traversal inputs
NodeIds == {"A", "B", "C"}

\* ids of the 2D network, in data order; a node list is a prefix of it
NodePool == <<"a", "b", "c", "d", "e">>

\* feedback records a node may carry when the traversal is called
NoFeedback == [visits |-> 0, insightful |-> 0, neutral |-> 0, familiar |-> 0]

\* (scores 0, 2 and -1)
FeedbackRecords ==
    { NoFeedback,
      [visits |-> 1, insightful |-> 1, neutral |-> 0, familiar |-> 0],
      [visits |-> 2, insightful |-> 0, neutral |-> 1, familiar |-> 1] }

(***************************************************************************)
(* Generic sequence helpers (Array.prototype.filter / map / push(...)).    *)
(***************************************************************************)
Range(s) == { s[i] : i \in DOMAIN s }

\* all sequences over S of length at most n
SeqsUpTo(S, n) == UNION { [1..k -> S] : k \in 0..n }

\* number of positions of s holding x
Occurrences(s, x) == Cardinality({ i \in DOMAIN s : s[i] = x })

(***************************************************************************)
(* getExplorationScore.  The code returns a double; the counters are small *)
(* integers, so the quotient is kept exactly, as <<numerator, denominator>>*)
(* with a positive denominator, and compared by cross-multiplication       *)
(* (rounding a quotient of small integers to a double keeps both order and *)
(* equality).                                                              *)
(***************************************************************************)
\* (variant: visits counted into the total)
getExplorationScoreCountsVisits(nodeId, data) ==
    IF nodeId \notin DOMAIN data
    THEN <<0, 1>>
    ELSE LET d == data[nodeId]
             totalFeedback == d.visits + d.insightful + d.neutral + d.familiar
         IN  IF totalFeedback = 0
             THEN <<0, 1>>
             ELSE <<d.insightful * 2 - d.familiar * 2, totalFeedback>>

getExplorationScore(nodeId, data) ==
    IF nodeId \notin DOMAIN data
    THEN <<0, 1>>
    ELSE LET d == data[nodeId]
             totalFeedback == d.insightful + d.neutral + d.familiar
         IN  IF totalFeedback = 0
             THEN <<0, 1>>
             ELSE <<d.insightful * 2 - d.familiar * 2, totalFeedback>>

\* sign of (x - y) for two scores
ScoreDiff(x, y) == x[1] * y[2] - y[1] * x[2]

(***************************************************************************)
(* links.filter(l => l.source === nodeId).map(l => l.target)               *)
(***************************************************************************)
OutgoingAnySource(nodeId, ls) ==
    [i \in DOMAIN ls |-> ls[i].target]

Outgoing(nodeId, ls) ==
    LET sel == SelectSeq(ls, LAMBDA l : l.source = nodeId)
    IN  [i \in DOMAIN sel |-> sel[i].target]

(***************************************************************************)
(* validNodes.forEach(nodeId => nextLevel.push(...outgoing))               *)
(***************************************************************************)
RECURSIVE ExpandLevel(_, _)
ExpandLevel(validNodes, ls) ==
    IF validNodes = <<>>
    THEN <<>>
    ELSE Outgoing(Head(validNodes), ls) \o ExpandLevel(Tail(validNodes), ls)

(***************************************************************************)
(* level.filter(id => !visited.has(id)): the visited set is the one of     *)
(* before the filter; the nodes kept are added to it only afterwards.      *)
(***************************************************************************)
\* (variant: the level is taken as it is)
ValidNodesUnfiltered(level, visited) == level

ValidNodes(level, visited) ==
    SelectSeq(level, LAMBDA id : id \notin visited)

(***************************************************************************)
(* First loop: "normal BFS to get all reachable nodes" (allNodesInPath).   *)
(***************************************************************************)
RECURSIVE ReachableLoop(_, _, _, _)
ReachableLoop(tempLevel, tempVisited, allNodesInPath, ls) ==
    IF tempLevel = <<>>
    THEN allNodesInPath
    ELSE LET validNodes == ValidNodes(tempLevel, tempVisited)
         IN  IF validNodes = <<>>
             THEN allNodesInPath
             ELSE ReachableLoop(ExpandLevel(validNodes, ls),
                                tempVisited \cup Range(validNodes),
                                allNodesInPath \o validNodes,
                                ls)

\* (a first loop that stops after the successors of the start)
AllNodesInPathOneLevel(start, ls) ==
    <<start>> \o ValidNodes(ExpandLevel(<<start>>, ls), {start})

AllNodesInPath(start, ls) == ReachableLoop(<<start>>, {}, <<>>, ls)

(***************************************************************************)
(* nodesWithScores.sort((a, b) => b.score - a.score): Array.prototype.sort *)
(* is stable, so the sort is an insertion of each element after the last   *)
(* element that does not compare after it.                                 *)
(***************************************************************************)
\* the comparator: negative when a goes first
CompareAscending(a, b, data) ==
    ScoreDiff(getExplorationScore(a, data), getExplorationScore(b, data))

Compare(a, b, data) ==
    ScoreDiff(getExplorationScore(b, data), getExplorationScore(a, data))

RECURSIVE InsertSorted(_, _, _)
InsertSorted(x, sorted, data) ==
    IF sorted = <<>>
    THEN <<x>>
    ELSE IF Compare(Head(sorted), x, data) <= 0
         THEN <<Head(sorted)>> \o InsertSorted(x, Tail(sorted), data)
         ELSE <<x>> \o sorted

RECURSIVE SortByScore(_, _)
SortByScore(ids, data) ==
    IF ids = <<>>
    THEN <<>>
    ELSE \* (the sorted prefix is bound as a value, so that it is computed once)
         CHOOSE s \in { InsertSorted(ids[Len(ids)], prefix, data) :
                           prefix \in {SortByScore(SubSeq(ids, 1, Len(ids) - 1), data)} } :
             TRUE

(***************************************************************************)
(* "Distribute into layers": the forEach that cuts the sorted remainder    *)
(* into layers of nodesPerLayer entries, numbered from 1.                  *)
(***************************************************************************)
nodesPerLayer == 3

RECURSIVE DistributeLoop(_, _, _, _, _)
DistributeLoop(sorted, idx, currentLayerNodes, currentLayerIndex, acc) ==
    IF idx > Len(sorted)
    THEN acc
    ELSE LET pushed == Append(currentLayerNodes, sorted[idx])
         IN  IF Len(pushed) >= nodesPerLayer \/ idx = Len(sorted)
             THEN DistributeLoop(sorted, idx + 1, <<>>, currentLayerIndex + 1,
                                 Append(acc, [level |-> currentLayerIndex, nodes |-> pushed]))
             ELSE DistributeLoop(sorted, idx + 1, pushed, currentLayerIndex, acc)

DistributeIntoLayersFromZero(startNode, sorted) ==
    DistributeLoop(sorted, 1, <<>>, 0, <<[level |-> 0, nodes |-> <<startNode>>]>>)

DistributeIntoLayers(startNode, sorted) ==
    DistributeLoop(sorted, 1, <<>>, 1, <<[level |-> 0, nodes |-> <<startNode>>]>>)

(***************************************************************************)
(* "Normal mode: standard BFS".                                            *)
(***************************************************************************)
RECURSIVE NormalLoop(_, _, _, _, _)
NormalLoop(currentLevel, visited, level, acc, ls) ==
    IF currentLevel = <<>>
    THEN acc
    ELSE LET validNodes == ValidNodes(currentLevel, visited)
         IN  IF validNodes = <<>>
             THEN acc
             ELSE NormalLoop(ExpandLevel(validNodes, ls),
                             visited \cup Range(validNodes),
                             level + 1,
                             Append(acc, [level |-> level, nodes |-> validNodes]),
                             ls)

NormalLayersStartVisited(start, ls) == NormalLoop(<<start>>, {start}, 0, <<>>, ls)

NormalLayersLevelFromOne(start, ls) == NormalLoop(<<start>>, {}, 1, <<>>, ls)

NormalLayers(start, ls) == NormalLoop(<<start>>, {}, 0, <<>>, ls)

(***************************************************************************)
(* getAdaptiveHierarchicalLayers                                           *)
(***************************************************************************)
getAdaptiveHierarchicalLayers(start, ls, data, mode) ==
    LET allNodesInPath == AllNodesInPath(start, ls)
    IN  IF mode /\ Len(allNodesInPath) > 1
        THEN LET startNode  == allNodesInPath[1]
                 otherNodes == Tail(allNodesInPath)
             IN  DistributeIntoLayers(startNode, SortByScore(otherNodes, data))
        ELSE NormalLayers(start, ls)

(***************************************************************************)
(* Inputs of the traversal: every edge list over NodeIds of at most        *)
(* MaxLinks edges (self-loops, repeated edges and cycles included), every  *)
(* start node, and every exploration map that gives some of the nodes one  *)
(* of FeedbackRecords (a node without a record is a node missing from the  *)
(* map).                                                                   *)
(***************************************************************************)
RawLinks == [source : NodeIds, target : NodeIds]

LinkLists == SeqsUpTo(RawLinks, MaxLinks)

ExplorationMaps == UNION { [D -> FeedbackRecords] : D \in SUBSET NodeIds }

\* values of the randomizeConnections state while it is not running
RandIdle ==
    /\ nodeIds = <<>>
    /\ newLinks = EmptyBag
    /\ usedPairs = {}
    /\ outgoingCount = << >>
    /\ incomingCount = << >>
    /\ targetNumLinks = 0
    /\ attempts = 0
    /\ loopIdx = 0
    /\ rpc = "idle"

\* the null of "string | null"
Null == "null"

\* values of the session state while no session runs
SessIdle ==
    /\ activeNode = Null
    /\ hierarchicalLayers = <<>>
    /\ previousLayers = <<>>
    /\ layout2D = << >>
    /\ showFeedback = FALSE
    /\ feedbackNodeId = Null
    /\ timers = <<>>
    /\ thrown = FALSE

ScoreIdle == scoreOut = <<0, 1>>

TravIdle == trav = << >>

LayoutIdle == positions = << >> /\ lay = << >>

NormalizeIdle == finalPositions = << >> /\ returned = << >>

PathIdle == bfs = << >> /\ fnp = << >> /\ ppc = "idle"

\* values of the 2D network state while no session of it runs
NetIdle ==
    /\ activeNodeRef = Null
    /\ nodePath = <<>>
    /\ currentLinks = <<>>
    /\ isRandomized = FALSE
    /\ originalLinksRef = <<>>
    /\ pulses = <<>>

ViewIdle == PathIdle /\ NetIdle

OtherIdle ==
    /\ ViewIdle
    /\ SessIdle
    /\ ScoreIdle
    /\ TravIdle
    /\ LayoutIdle
    /\ NormalizeIdle

LayersInit ==
    /\ OtherIdle
    /\ startId \in NodeIds
    /\ links \in LinkLists
    /\ explorationData \in ExplorationMaps
    /\ cyberneticMode = FALSE
    /\ layers = <<>>
    /\ lpc = "input"
    /\ RandIdle

\* one call of getAdaptiveHierarchicalLayers, in either mode
CallLayers ==
    /\ lpc = "input"
    /\ \E mode \in BOOLEAN :
          /\ cyberneticMode' = mode
          /\ layers' = getAdaptiveHierarchicalLayers(startId, links, explorationData, mode)
    /\ lpc' = "returned"
    /\ UNCHANGED <<startId, links, explorationData, randVars, otherVars>>

LayersNext == CallLayers

LayersSpec == LayersInit /\ [][LayersNext]_vars

(***************************************************************************)
(* Graph notions the claims are stated with, defined on the edge set and   *)
(* independently of the traversal code.                                    *)
(***************************************************************************)
Successors(S, ls) == { l.target : l \in { e \in Range(ls) : e.source \in S } }

RECURSIVE ReachableFrom(_, _)
ReachableFrom(S, ls) ==
    LET next == S \cup Successors(S, ls)
    IN  IF next = S THEN S ELSE ReachableFrom(next, ls)

\* the nodes reachable from start along source -> target edges
Reachable(start, ls) == ReachableFrom({start}, ls)

RECURSIVE HopsFrom(_, _, _, _)
HopsFrom(seen, n, d, ls) ==
    IF n \in seen THEN d
    ELSE LET next == seen \cup Successors(seen, ls)
         IN  IF next = seen THEN -1 ELSE HopsFrom(next, n, d + 1, ls)

\* the shortest directed hop distance from start to n (-1: unreachable)
HopDistance(start, n, ls) == HopsFrom({start}, n, 0, ls)

\* the indices of the layers that hold node n
LayersHolding(n) == { i \in DOMAIN layers : n \in Range(layers[i].nodes) }

\* the node entries of the layers after the first, in order
RECURSIVE ConcatLayers(_)
ConcatLayers(i) ==
    IF i > Len(layers) THEN <<>> ELSE layers[i].nodes \o ConcatLayers(i + 1)

Remainder == ConcatLayers(2)

NoDuplicates(s) == \A i, j \in DOMAIN s : i # j => s[i] # s[j]

HasFeedback(n) ==
    /\ n \in DOMAIN explorationData
    /\ explorationData[n].insightful + explorationData[n].neutral
         + explorationData[n].familiar > 0

Score(n) == getExplorationScore(n, explorationData)

Link(s, t) == [source |-> s, target |-> t]

NonAdaptiveReturned == lpc = "returned" /\ ~cyberneticMode
AdaptiveReturned    == lpc = "returned" /\ cyberneticMode

(***************************************************************************)
(* C1: in non-adaptive mode every node reachable from the start is held by *)
(* exactly one layer, no unreachable node is held by any layer, and layer  *)
(* 0 is exactly [start].                                                   *)
(***************************************************************************)
C1_BfsLayerPartition ==
    NonAdaptiveReturned =>
        /\ Len(layers) >= 1
        /\ layers[1] = [level |-> 0, nodes |-> <<startId>>]
        /\ \A n \in Reachable(startId, links) : Cardinality(LayersHolding(n)) = 1
        /\ \A i \in DOMAIN layers : Range(layers[i].nodes) \subseteq Reachable(startId, links)

\* a cycle through all three nodes, with an edge back into the start
W1_CycleLayered ==
    /\ NonAdaptiveReturned
    /\ startId = "B"
    /\ links = <<Link("B", "C"), Link("C", "A"), Link("A", "B")>>
    /\ layers = << [level |-> 0, nodes |-> <<"B">>],
                   [level |-> 1, nodes |-> <<"C">>],
                   [level |-> 2, nodes |-> <<"A">>] >>

(***************************************************************************)
(* C2: in the non-adaptive Layering no node id occurs more than once       *)
(* inside a single layer.                                                  *)
(***************************************************************************)
X2_NoDuplicateInsideLayer ==
    NonAdaptiveReturned => \A i \in DOMAIN layers : NoDuplicates(layers[i].nodes)

(***************************************************************************)
(* C3: in both modes no node id appears in more than one layer, and the    *)
(* layer of level 0 holds exactly the start node.                          *)
(***************************************************************************)
X3_AtMostOneLayerPerNode ==
    lpc = "returned" =>
        /\ \A n \in NodeIds : Cardinality(LayersHolding(n)) <= 1
        /\ \A i \in DOMAIN layers : layers[i].level = 0 => layers[i].nodes = <<startId>>
        /\ \E i \in DOMAIN layers : layers[i].level = 0

(***************************************************************************)
(* C4: in adaptive mode the layers of level >= 1 together hold every node  *)
(* reachable from the start, other than the start, exactly once, and no    *)
(* other node.                                                             *)
(***************************************************************************)
X4_AdaptiveRemainderExactlyOnce ==
    AdaptiveReturned =>
        /\ Len(layers) >= 1
        /\ layers[1].nodes = <<startId>>
        /\ \A n \in Reachable(startId, links) \ {startId} : Occurrences(Remainder, n) = 1
        /\ Range(Remainder) \subseteq Reachable(startId, links) \ {startId}

(***************************************************************************)
(* C5: in adaptive mode, of two reachable non-start nodes that both have   *)
(* feedback, the one with the strictly higher score is in a layer of lower *)
(* or equal level.                                                         *)
(***************************************************************************)
C5_HigherScoreNotLater ==
    AdaptiveReturned =>
        \A a, b \in Reachable(startId, links) \ {startId} :
            (HasFeedback(a) /\ HasFeedback(b) /\ ScoreDiff(Score(a), Score(b)) > 0) =>
                \A i \in LayersHolding(a), j \in LayersHolding(b) :
                    layers[i].level <= layers[j].level

\* the higher-scored node was discovered after the other one, and ends up
\* in a strictly earlier layer than an entry of the other one
W5_HigherScorePromoted ==
    /\ AdaptiveReturned
    /\ \E a, b \in Reachable(startId, links) \ {startId} :
          /\ HasFeedback(a) /\ HasFeedback(b)
          /\ ScoreDiff(Score(a), Score(b)) > 0
          /\ HopDistance(startId, a, links) > HopDistance(startId, b, links)
          /\ \E i \in LayersHolding(a), j \in LayersHolding(b) :
                layers[i].level < layers[j].level

(***************************************************************************)
(* C6: in adaptive mode with a reachable node besides the start, the       *)
(* layers after level 0 carry the levels 1..K of their positions, each but *)
(* the last holds exactly 3 entries, the last holds 1 to 3, and their      *)
(* concatenation is the remainder of the discovery order sorted by         *)
(* descending score.                                                       *)
(***************************************************************************)
C6_ChunksOfThree ==
    (AdaptiveReturned /\ Reachable(startId, links) # {startId}) =>
        /\ Len(layers) >= 2
        /\ \A i \in DOMAIN layers : layers[i].level = i - 1
        /\ \A i \in 2..(Len(layers) - 1) : Len(layers[i].nodes) = 3
        /\ Len(layers[Len(layers)].nodes) \in 1..3
        /\ \A k \in 1..(Len(Remainder) - 1) :
              ScoreDiff(Score(Remainder[k]), Score(Remainder[k + 1])) >= 0
        /\ \A n \in NodeIds :
              Occurrences(Remainder, n) = Occurrences(Tail(AllNodesInPath(startId, links)), n)

\* a full chunk followed by a shorter last chunk
W6_FullChunkThenRest ==
    /\ AdaptiveReturned
    /\ Len(layers) = 3
    /\ Len(layers[2].nodes) = 3
    /\ Len(layers[3].nodes) = 1
    /\ \E k \in 1..(Len(Remainder) - 1) :
          ScoreDiff(Score(Remainder[k]), Score(Remainder[k + 1])) > 0

(***************************************************************************)
(* C7: in the non-adaptive Layering the level of the layer that holds a    *)
(* node is the node's shortest hop distance from the start, and each       *)
(* layer's level is its index in the Layering.                             *)
(***************************************************************************)
C7_LevelIsHopDistance ==
    NonAdaptiveReturned =>
        \A i \in DOMAIN layers :
            /\ layers[i].level = i - 1
            /\ \A n \in Range(layers[i].nodes) :
                  HopDistance(startId, n, links) = layers[i].level

\* a node with predecessors at two different distances sits at the shorter one
W7_TwoPredecessors ==
    /\ NonAdaptiveReturned
    /\ startId = "A"
    /\ links = <<Link("A", "B"), Link("B", "C"), Link("A", "C")>>
    /\ layers = << [level |-> 0, nodes |-> <<"A">>],
                   [level |-> 1, nodes |-> <<"B", "C">>] >>

(***************************************************************************)
(* C8: a start node without outgoing edges yields exactly one layer, of    *)
(* level 0 and holding only the start node, in both modes and whatever the *)
(* feedback.                                                               *)
(***************************************************************************)
C8_IsolatedStartSingleLayer ==
    (lpc = "returned" /\ \A i \in DOMAIN links : links[i].source # startId) =>
        layers = << [level |-> 0, nodes |-> <<startId>>] >>

\* adaptive call, edges elsewhere in the graph (one of them into the start),
\* feedback recorded on the start and on another node
W8_IsolatedStartAdaptive ==
    /\ AdaptiveReturned
    /\ startId = "C"
    /\ links = <<Link("A", "B"), Link("B", "C")>>
    /\ HasFeedback("C") /\ HasFeedback("A")
    /\ layers = << [level |-> 0, nodes |-> <<"C">>] >>

(***************************************************************************)
(* randomizeConnections.                                                   *)
(*                                                                         *)
(* newLinks is an array in the code; the routine reads only its length and *)
(* pushes to it, so it is kept as a bag of <<source, target>> pairs: the   *)
(* order of the pushes is dropped, repeated pairs are not.                 *)
(***************************************************************************)
minConnectionsPerNode == 3

\* `${source}-${target}`
PairKey(source, target) == source \o "-" \o target

\* nodeIds[Math.floor(Math.random() * nodeIds.length)]: any element of the
\* list, and undefined when the list is empty
Undefined == "undefined"

RandomNode == IF nodeIds = <<>> THEN {Undefined} ELSE Range(nodeIds)

\* the condition under which a drawn pair is pushed
AcceptableNoUsedCheck(source, target, used) ==
    source # target

Acceptable(source, target, used) ==
    /\ source # target
    /\ PairKey(source, target) \notin used

\* the body of the three if-blocks: push the pair and update the bookkeeping
PushLink(source, target) ==
    /\ newLinks' = newLinks (+) SetToBag({<<source, target>>})
    /\ usedPairs' = usedPairs \cup {PairKey(source, target)}
    /\ outgoingCount' = [outgoingCount EXCEPT ![source] = @ + 1]
    /\ incomingCount' = [incomingCount EXCEPT ![target] = @ + 1]

\* (map.get(id) || 0)
CountOf(map, id) == IF id \in DOMAIN map THEN map[id] ELSE 0

\* newLinks.length
NumLinks == BagCardinality(newLinks)

\* ---- first pass: at least 3 outgoing connections per node
\* (a rejected draw changes nothing the routine keeps: the loop goes round
\* with the same state, which is a stuttering step here)
Pass1Draw ==
    /\ rpc = "pass1"
    /\ loopIdx <= Len(nodeIds)
    /\ CountOf(outgoingCount, nodeIds[loopIdx]) < minConnectionsPerNode
    /\ \E targetNode \in RandomNode :
          IF Acceptable(nodeIds[loopIdx], targetNode, usedPairs)
          THEN PushLink(nodeIds[loopIdx], targetNode)
          ELSE UNCHANGED <<newLinks, usedPairs, outgoingCount, incomingCount>>
    /\ UNCHANGED <<nodeIds, targetNumLinks, attempts, loopIdx, rpc, layerVars, otherVars>>

\* the while condition fails: the for-of loop takes the next source node
Pass1NextNode ==
    /\ rpc = "pass1"
    /\ loopIdx <= Len(nodeIds)
    /\ CountOf(outgoingCount, nodeIds[loopIdx]) >= minConnectionsPerNode
    /\ loopIdx' = loopIdx + 1
    /\ UNCHANGED <<nodeIds, newLinks, usedPairs, outgoingCount, incomingCount,
                   targetNumLinks, attempts, rpc, layerVars, otherVars>>

Pass1Done ==
    /\ rpc = "pass1"
    /\ loopIdx > Len(nodeIds)
    /\ rpc' = "pass2"
    /\ loopIdx' = 1
    /\ UNCHANGED <<nodeIds, newLinks, usedPairs, outgoingCount, incomingCount,
                   targetNumLinks, attempts, layerVars, otherVars>>

\* ---- second pass: at least 3 incoming connections per node
Pass2Draw ==
    /\ rpc = "pass2"
    /\ loopIdx <= Len(nodeIds)
    /\ CountOf(incomingCount, nodeIds[loopIdx]) < minConnectionsPerNode
    /\ \E sourceNode \in RandomNode :
          IF Acceptable(sourceNode, nodeIds[loopIdx], usedPairs)
          THEN PushLink(sourceNode, nodeIds[loopIdx])
          ELSE UNCHANGED <<newLinks, usedPairs, outgoingCount, incomingCount>>
    /\ UNCHANGED <<nodeIds, targetNumLinks, attempts, loopIdx, rpc, layerVars, otherVars>>

Pass2NextNode ==
    /\ rpc = "pass2"
    /\ loopIdx <= Len(nodeIds)
    /\ CountOf(incomingCount, nodeIds[loopIdx]) >= minConnectionsPerNode
    /\ loopIdx' = loopIdx + 1
    /\ UNCHANGED <<nodeIds, newLinks, usedPairs, outgoingCount, incomingCount,
                   targetNumLinks, attempts, rpc, layerVars, otherVars>>

\* the third pass starts with attempts = 0
Pass2Done ==
    /\ rpc = "pass2"
    /\ loopIdx > Len(nodeIds)
    /\ rpc' = "pass3"
    /\ attempts' = 0
    /\ UNCHANGED <<nodeIds, newLinks, usedPairs, outgoingCount, incomingCount,
                   targetNumLinks, loopIdx, layerVars, otherVars>>

\* ---- third pass: more random connections, up to the original total
maxAttempts == targetNumLinks * 10

\* (a loop condition that leaves out the comparison with targetNumLinks)
Pass3ContinuesPastTarget == attempts < maxAttempts

Pass3Continues == NumLinks < targetNumLinks /\ attempts < maxAttempts

Pass3Draw ==
    /\ rpc = "pass3"
    /\ Pass3Continues
    /\ attempts' = attempts + 1
    /\ \E source \in RandomNode, target \in RandomNode :
          IF Acceptable(source, target, usedPairs)
          THEN PushLink(source, target)
          ELSE UNCHANGED <<newLinks, usedPairs, outgoingCount, incomingCount>>
    /\ UNCHANGED <<nodeIds, targetNumLinks, loopIdx, rpc, layerVars, otherVars>>

\* return newLinks
RandomizeReturn ==
    /\ rpc = "pass3"
    /\ ~Pass3Continues
    /\ rpc' = "returned"
    /\ UNCHANGED <<nodeIds, newLinks, usedPairs, outgoingCount, incomingCount,
                   targetNumLinks, attempts, loopIdx, layerVars, otherVars>>

\* values of the traversal state while randomizeConnections runs
LayersIdle ==
    /\ startId = "A"
    /\ links = <<>>
    /\ explorationData = << >>
    /\ cyberneticMode = FALSE
    /\ layers = <<>>
    /\ lpc = "idle"

\* the node lists the routine is run on: the prefixes of NodePool
NodeLists == { SubSeq(NodePool, 1, k) : k \in 0..Len(NodePool) }

\* state at the entry of the first pass: empty link list, all counts 0
RandomizeInit ==
    /\ nodeIds \in NodeLists
    /\ targetNumLinks \in 0..MaxTargetLinks
    /\ newLinks = EmptyBag
    /\ usedPairs = {}
    /\ outgoingCount = [id \in Range(nodeIds) |-> 0]
    /\ incomingCount = [id \in Range(nodeIds) |-> 0]
    /\ attempts = 0
    /\ loopIdx = 1
    /\ rpc = "pass1"
    /\ LayersIdle
    /\ OtherIdle

RandomizeNext ==
    \/ Pass1Draw
    \/ Pass1NextNode
    \/ Pass1Done
    \/ Pass2Draw
    \/ Pass2NextNode
    \/ Pass2Done
    \/ Pass3Draw
    \/ RandomizeReturn

RandomizeSpec == RandomizeInit /\ [][RandomizeNext]_vars

\* fair random draws: a draw that changes the state cannot be avoided for
\* ever while one is possible, and the loop control steps are taken
FairRandomizeSpec == RandomizeSpec /\ WF_vars(RandomizeNext)

(***************************************************************************)
(* Degrees of the generated edge set, counted on the bag itself and not    *)
(* read from the routine's own counters.                                   *)
(***************************************************************************)
RECURSIVE SumCopies(_)
SumCopies(S) ==
    IF S = {} THEN 0
    ELSE LET e == CHOOSE x \in S : TRUE
         IN  CopiesIn(e, newLinks) + SumCopies(S \ {e})

OutDegree(id) == SumCopies({ e \in BagToSet(newLinks) : e[1] = id })
InDegree(id)  == SumCopies({ e \in BagToSet(newLinks) : e[2] = id })

(***************************************************************************)
(* C9: every edge set returned by randomizeConnections gives every node    *)
(* out-degree >= 3 and in-degree >= 3, holds no edge from a node to        *)
(* itself, and holds no (source, target) pair twice.                       *)
(***************************************************************************)
C9_ReturnedEdgeSet ==
    rpc = "returned" =>
        /\ \A id \in Range(nodeIds) : OutDegree(id) >= 3 /\ InDegree(id) >= 3
        /\ \A e \in BagToSet(newLinks) : e[1] # e[2]
        /\ \A e \in BagToSet(newLinks) : CopiesIn(e, newLinks) = 1

\* a returned set on five nodes: the first two passes left it one edge short
\* of the target, and the third pass added that edge after a rejected draw
W9_ReturnedAfterThreePasses ==
    /\ rpc = "returned"
    /\ Len(nodeIds) = 5
    /\ attempts > 1
    /\ NumLinks = targetNumLinks
    /\ \E id \in Range(nodeIds) : OutDegree(id) > 3
    /\ \E id \in Range(nodeIds) : InDegree(id) > 3

(***************************************************************************)
(* C10: randomizeConnections returns for every node set and every target   *)
(* count, under fair random draws.                                         *)
(***************************************************************************)
X10_RandomizeTerminates == <>(rpc = "returned")

\* the fairness of FairRandomizeSpec is enough for the routine to return
\* whenever the minimum degree can be reached (no node, or four and more)
ReturnsOutsideOneToThreeNodes ==
    (Len(nodeIds) \notin 1..3) => <>(rpc = "returned")

(***************************************************************************)
(* CyberneticTopoMap: one session of the 3D map.  Every event handler is   *)
(* one action; the state updates a handler queues are applied together,    *)
(* as React applies them before the next event.                            *)
(***************************************************************************)
\* most visits recorded in one session, over all nodes
MaxVisits == 2
\* most feedback submissions in one session, over all nodes and kinds
MaxFeedback == 3
\* most feedback prompts waiting for their 1500 ms at one time
MaxTimers == 1

\* the node ids of data.json, in file order
nodes == <<"A", "B", "C">>

\* the link lists of data.json a session is run on: a cycle, and a chain
\* whose first edge is listed twice
SessionLinkLists ==
    { <<Link("A", "B"), Link("B", "C"), Link("C", "A")>>,
      <<Link("A", "B"), Link("A", "B"), Link("B", "C")>> }

FeedbackKinds == {"insightful", "neutral", "familiar"}

\* iterations = randomize ? 200 : 100
iterations(randomize) == IF randomize THEN 200 ELSE 100

\* The map a finished forceDirectedLayout call returns.  A position is kept
\* as the history of its entry: the number of integration steps applied to
\* it, whether the normalization pass has rescaled it, and whether a value
\* of Math.random has flowed into it.
forceDirectedLayout(ns, ls, randomize) ==
    [id \in Range(ns) |->
        [steps |-> iterations(randomize), stage |-> "normalized", random |-> randomize]]

\* newMap.get(id)! is undefined for an id with no record, and reading a
\* field of undefined throws a TypeError
Throws(data, id) == id \notin DOMAIN data

\* (variant: the click is counted twice)
RecordVisitTwice(data, id) == [data EXCEPT ![id].visits = @ + 2]

\* { ...current, visits: current.visits + 1 }
RecordVisit(data, id) == [data EXCEPT ![id].visits = @ + 1]

\* (variant: the record is rebuilt without the spread of the current one)
RecordFeedbackNoSpread(data, nodeId, type) ==
    [data EXCEPT ![nodeId] = [NoFeedback EXCEPT ![type] = data[nodeId][type] + 1]]

\* (variant: a submission also counts as a visit)
RecordFeedbackCountsVisit(data, nodeId, type) ==
    [data EXCEPT ![nodeId] = [@ EXCEPT ![type] = @ + 1, !.visits = @ + 1]]

\* { ...current, [type]: current[type] + 1 }
RecordFeedback(data, nodeId, type) == [data EXCEPT ![nodeId][type] = @ + 1]

RECURSIVE SumOver(_, _)
SumOver(f, D) ==
    IF D = {} THEN 0
    ELSE LET d == CHOOSE e \in D : TRUE IN f[d] + SumOver(f, D \ {d})

TotalVisits(data) == SumOver([id \in DOMAIN data |-> data[id].visits], DOMAIN data)

TotalFeedback(data) ==
    SumOver([id \in DOMAIN data |->
                data[id].insightful + data[id].neutral + data[id].familiar],
            DOMAIN data)

\* a click on the marker of node id
handleNodeClick(id) ==
    /\ ~thrown
    /\ id \in Range(nodes)
    /\ IF activeNode = id
       THEN /\ feedbackNodeId' = IF cyberneticMode THEN id ELSE feedbackNodeId
            /\ showFeedback' = IF cyberneticMode THEN TRUE ELSE showFeedback
            /\ activeNode' = Null
            /\ hierarchicalLayers' = <<>>
            /\ previousLayers' = <<>>
            /\ UNCHANGED <<explorationData, timers, thrown>>
       ELSE /\ TotalVisits(explorationData) < MaxVisits
            /\ cyberneticMode => Len(timers) < MaxTimers
            /\ previousLayers' =
                   IF Len(hierarchicalLayers) > 0 /\ cyberneticMode
                   THEN hierarchicalLayers ELSE previousLayers
            /\ activeNode' = id
            /\ hierarchicalLayers' =
                   getAdaptiveHierarchicalLayers(id, links, explorationData, cyberneticMode)
            /\ IF Throws(explorationData, id)
               THEN thrown' = TRUE /\ UNCHANGED explorationData
               ELSE explorationData' = RecordVisit(explorationData, id) /\ UNCHANGED thrown
            /\ timers' = IF cyberneticMode THEN Append(timers, id) ELSE timers
            /\ UNCHANGED <<showFeedback, feedbackNodeId>>
    /\ UNCHANGED <<startId, links, cyberneticMode, layers, lpc, layout2D, randVars, viewVars, auxVars>>

\* the callback of setTimeout(..., 1500) queued by handleNodeClick
FeedbackTimer ==
    /\ ~thrown
    /\ timers # <<>>
    /\ feedbackNodeId' = Head(timers)
    /\ showFeedback' = TRUE
    /\ timers' = Tail(timers)
    /\ UNCHANGED <<activeNode, hierarchicalLayers, previousLayers, layout2D, thrown,
                   layerVars, randVars, viewVars, auxVars>>

\* (a handler that records the feedback and leaves the Layering as it is)
handleFeedbackKeepsLayers(nodeId, type) ==
    /\ ~thrown
    /\ showFeedback
    /\ feedbackNodeId # Null
    /\ nodeId = feedbackNodeId
    /\ TotalFeedback(explorationData) < MaxFeedback
    /\ ~Throws(explorationData, nodeId)
    /\ explorationData' = RecordFeedback(explorationData, nodeId, type)
    /\ showFeedback' = FALSE
    /\ UNCHANGED <<startId, links, cyberneticMode, layers, lpc, hierarchicalLayers,
                   previousLayers, thrown,
                   activeNode, layout2D, feedbackNodeId, timers, randVars, viewVars, auxVars>>

\* a click on one of the three buttons of the FeedbackPanel:
\* onFeedback(nodeId, type) and then onClose()
handleFeedback(nodeId, type) ==
    /\ ~thrown
    /\ showFeedback
    /\ feedbackNodeId # Null
    /\ nodeId = feedbackNodeId
    /\ TotalFeedback(explorationData) < MaxFeedback
    /\ IF Throws(explorationData, nodeId)
       THEN /\ thrown' = TRUE
            /\ UNCHANGED <<explorationData, hierarchicalLayers, previousLayers, showFeedback>>
       ELSE LET newExplorationData == RecordFeedback(explorationData, nodeId, type) IN
            /\ explorationData' = newExplorationData
            /\ IF activeNode # Null /\ cyberneticMode
               THEN /\ previousLayers' = hierarchicalLayers
                    /\ hierarchicalLayers' =
                           getAdaptiveHierarchicalLayers(activeNode, links,
                                                         newExplorationData, cyberneticMode)
               ELSE UNCHANGED <<hierarchicalLayers, previousLayers>>
            /\ showFeedback' = FALSE
            /\ UNCHANGED thrown
    /\ UNCHANGED <<startId, links, cyberneticMode, layers, lpc,
                   activeNode, layout2D, feedbackNodeId, timers, randVars, viewVars, auxVars>>

\* (a handler that leaves the previous Layering where it is)
handleCloseKeepsPrevious ==
    /\ ~thrown
    /\ activeNode # Null
    /\ Len(hierarchicalLayers) > 0
    /\ activeNode' = Null
    /\ hierarchicalLayers' = <<>>
    /\ UNCHANGED <<previousLayers, layout2D, showFeedback, feedbackNodeId, timers, thrown,
                   layerVars, randVars, viewVars, auxVars>>

\* a click on the close button of the LeftPanel
handleClose ==
    /\ ~thrown
    /\ activeNode # Null
    /\ Len(hierarchicalLayers) > 0
    /\ activeNode' = Null
    /\ hierarchicalLayers' = <<>>
    /\ previousLayers' = <<>>
    /\ UNCHANGED <<layout2D, showFeedback, feedbackNodeId, timers, thrown,
                   layerVars, randVars, viewVars, auxVars>>

\* a click on the Randomize button, which is rendered while no node is active
handleRandomize ==
    /\ ~thrown
    /\ activeNode = Null
    /\ layout2D' = IF activeNode = Null
                   THEN forceDirectedLayout(nodes, links, TRUE) ELSE layout2D
    /\ UNCHANGED <<activeNode, hierarchicalLayers, previousLayers, showFeedback,
                   feedbackNodeId, timers, thrown, layerVars, randVars, viewVars, auxVars>>

\* a click on the mode button, which is rendered while no node is active
toggleCyberneticMode ==
    /\ ~thrown
    /\ activeNode = Null
    /\ cyberneticMode' = ~cyberneticMode
    /\ IF activeNode # Null
       THEN /\ previousLayers' = hierarchicalLayers
            /\ hierarchicalLayers' =
                   getAdaptiveHierarchicalLayers(activeNode, links,
                                                 explorationData, ~cyberneticMode)
       ELSE UNCHANGED <<hierarchicalLayers, previousLayers>>
    /\ UNCHANGED <<startId, links, explorationData, layers, lpc,
                   activeNode, layout2D, showFeedback, feedbackNodeId, timers, thrown,
                   randVars, viewVars, auxVars>>

\* state after the component is constructed
SessionInit ==
    /\ links \in SessionLinkLists
    /\ explorationData = [id \in Range(nodes) |-> NoFeedback]
    /\ cyberneticMode = FALSE
    /\ activeNode = Null
    /\ hierarchicalLayers = <<>>
    /\ previousLayers = <<>>
    /\ layout2D = forceDirectedLayout(nodes, links, FALSE)
    /\ showFeedback = FALSE
    /\ feedbackNodeId = Null
    /\ timers = <<>>
    /\ thrown = FALSE
    /\ startId = "A"
    /\ layers = <<>>
    /\ lpc = "idle"
    /\ RandIdle
    /\ ViewIdle
    /\ ScoreIdle
    /\ TravIdle
    /\ LayoutIdle
    /\ NormalizeIdle

SessionNext ==
    \/ \E id \in Range(nodes) : handleNodeClick(id)
    \/ FeedbackTimer
    \/ \E nodeId \in Range(nodes), type \in FeedbackKinds : handleFeedback(nodeId, type)
    \/ handleClose
    \/ handleRandomize
    \/ toggleCyberneticMode

SessionSpec == SessionInit /\ [][SessionNext]_vars

(***************************************************************************)
(* The feedback store of a session: claims C11, C12, C13.                  *)
(***************************************************************************)
CounterNames == {"visits", "insightful", "neutral", "familiar"}

\* C11: across every event of a session (selecting a node, clicking the
\* active node again, closing the panel, submitting feedback, toggling the
\* mode, randomizing the layout) no counter of any node decreases or is
\* reset, and no record is dropped.
C11_CountersNeverDecrease ==
    [][\A id \in DOMAIN explorationData :
          /\ id \in DOMAIN explorationData'
          /\ \A c \in CounterNames : explorationData'[id][c] >= explorationData[id][c]]_vars

\* A was selected and rated insightful in cybernetic mode; afterwards the node
\* was deselected, the mode was switched off again and the layout randomized,
\* and both counters still stand
W11_CountersSurviveModeAndLayout ==
    /\ explorationData["A"].visits = 1
    /\ explorationData["A"].insightful = 1
    /\ activeNode = Null
    /\ ~cyberneticMode
    /\ layout2D["A"].random

\* C12: handleFeedback(X, k) raises counter k of node X by exactly one and
\* leaves the other three counters of X and every other node's record as they
\* were; repeated submissions add up, with no cap and no reset.
C12_FeedbackAddsExactlyOne ==
    [][\A nodeId \in Range(nodes), type \in FeedbackKinds :
          handleFeedback(nodeId, type) =>
              /\ DOMAIN explorationData' = DOMAIN explorationData
              /\ explorationData'[nodeId][type] = explorationData[nodeId][type] + 1
              /\ \A c \in CounterNames \ {type} :
                    explorationData'[nodeId][c] = explorationData[nodeId][c]
              /\ \A other \in DOMAIN explorationData \ {nodeId} :
                    explorationData'[other] = explorationData[other]]_vars

\* the same kind of feedback was submitted for A as many times as the
\* session allows, and the counter holds exactly that number
W12_RepeatedFeedbackAddsUp ==
    /\ explorationData["A"].insightful = MaxFeedback
    /\ explorationData["A"].neutral = 0
    /\ explorationData["A"].familiar = 0

\* C13: selecting a node that is not the active one raises its visits by
\* exactly one and changes no insightful, neutral or familiar counter of any
\* node; a click on the node that is already active records no visit.
C13_SelectAddsOneVisit ==
    [][\A id \in Range(nodes) :
          handleNodeClick(id) =>
              IF activeNode = id
              THEN explorationData' = explorationData
              ELSE /\ DOMAIN explorationData' = DOMAIN explorationData
                   /\ explorationData'[id].visits = explorationData[id].visits + 1
                   /\ \A c \in FeedbackKinds :
                         explorationData'[id][c] = explorationData[id][c]
                   /\ \A other \in DOMAIN explorationData \ {id} :
                         explorationData'[other] = explorationData[other]]_vars

\* A was selected once in cybernetic mode and clicked again while active: the
\* prompt is already shown although the timer of the selection is still
\* pending, and the second click has not been counted as a visit
W13_ReclickNotCounted ==
    /\ explorationData["A"].visits = 1
    /\ TotalVisits(explorationData) = 1
    /\ activeNode = Null
    /\ showFeedback
    /\ feedbackNodeId = "A"
    /\ timers = <<"A">>

(***************************************************************************)
(* getExplorationScore on its own: claim C14.                              *)
(***************************************************************************)
\* largest value of one counter handed to getExplorationScore
MaxCount == 3

Counters == 0..MaxCount

\* the maps handed over: no record for the node, or any record with
\* counters up to MaxCount
ScoreInputs ==
    { << >> } \cup
    { [id \in {"A"} |-> r] :
        r \in [visits : Counters, insightful : Counters,
               neutral : Counters, familiar : Counters] }

ScoreInit ==
    /\ startId = "A"
    /\ explorationData \in ScoreInputs
    /\ scoreOut = <<0, 1>>
    /\ lpc = "score"
    /\ links = <<>>
    /\ cyberneticMode = FALSE
    /\ layers = <<>>
    /\ RandIdle
    /\ ViewIdle
    /\ SessIdle
    /\ TravIdle
    /\ LayoutIdle
    /\ NormalizeIdle

CallScore ==
    /\ lpc = "score"
    /\ scoreOut' = getExplorationScore(startId, explorationData)
    /\ lpc' = "scored"
    /\ UNCHANGED <<startId, links, explorationData, cyberneticMode, layers,
                   randVars, viewVars, sessVars, trav, positions, lay, finalPositions, returned>>

ScoreNext == CallScore

ScoreSpec == ScoreInit /\ [][ScoreNext]_vars

\* C14: getExplorationScore returns (2*insightful - 2*familiar) /
\* (insightful + neutral + familiar) when that total is positive and 0 when
\* the total is 0 or the node has no record; the result lies in [-2, 2];
\* the visits counter has no influence on it.
C14_ScoreFormulaAndRange ==
    (lpc = "scored") =>
        LET hasRecord == startId \in DOMAIN explorationData
            d == explorationData[startId]
            total == d.insightful + d.neutral + d.familiar
        IN  /\ scoreOut[2] > 0
            /\ (~hasRecord) => scoreOut[1] = 0
            /\ (hasRecord /\ total = 0) => scoreOut[1] = 0
            /\ (hasRecord /\ total > 0) =>
                   scoreOut[1] * total = (2 * d.insightful - 2 * d.familiar) * scoreOut[2]
            /\ scoreOut[1] <= 2 * scoreOut[2]
            /\ scoreOut[1] >= (-2) * scoreOut[2]
            /\ hasRecord =>
                   \A v \in Counters :
                       ScoreDiff(getExplorationScore(startId,
                                     [explorationData EXCEPT ![startId].visits = v]),
                                 scoreOut) = 0

\* a node visited MaxCount times whose feedback is all familiar, with one
\* neutral: the score is strictly between -2 and 0
W14_MixedFeedbackScore ==
    /\ lpc = "scored"
    /\ explorationData = [id \in {"A"} |->
           [visits |-> MaxCount, insightful |-> 0, neutral |-> 1, familiar |-> MaxCount]]
    /\ scoreOut[1] < 0
    /\ scoreOut[1] > (-2) * scoreOut[2]

(***************************************************************************)
(* The two store operations on their own, applied to any store: the        *)
(* updater handleNodeClick hands to setExplorationData (recordVisit) and   *)
(* the first statements of handleFeedback (recordFeedback).  Claim C15.    *)
(***************************************************************************)
\* the stores handed over: all-zero records for any subset of the node ids
StoreInputs == { [id \in D |-> NoFeedback] : D \in SUBSET Range(nodes) }

StoreInit ==
    /\ explorationData \in StoreInputs
    /\ thrown = FALSE
    /\ startId = "A"
    /\ links = <<>>
    /\ cyberneticMode = FALSE
    /\ layers = <<>>
    /\ lpc = "store"
    /\ activeNode = Null
    /\ hierarchicalLayers = <<>>
    /\ previousLayers = <<>>
    /\ layout2D = << >>
    /\ showFeedback = FALSE
    /\ feedbackNodeId = Null
    /\ timers = <<>>
    /\ RandIdle
    /\ ViewIdle
    /\ ScoreIdle
    /\ TravIdle
    /\ LayoutIdle
    /\ NormalizeIdle

recordVisit(id) ==
    /\ lpc = "store"
    /\ ~thrown
    /\ TotalVisits(explorationData) < MaxVisits
    /\ IF Throws(explorationData, id)
       THEN thrown' = TRUE /\ UNCHANGED explorationData
       ELSE explorationData' = RecordVisit(explorationData, id) /\ UNCHANGED thrown
    /\ UNCHANGED <<startId, links, cyberneticMode, layers, lpc,
                   activeNode, hierarchicalLayers, previousLayers, layout2D,
                   showFeedback, feedbackNodeId, timers, randVars, viewVars, auxVars>>

recordFeedback(nodeId, type) ==
    /\ lpc = "store"
    /\ ~thrown
    /\ TotalFeedback(explorationData) < MaxFeedback
    /\ IF Throws(explorationData, nodeId)
       THEN thrown' = TRUE /\ UNCHANGED explorationData
       ELSE explorationData' = RecordFeedback(explorationData, nodeId, type)
            /\ UNCHANGED thrown
    /\ UNCHANGED <<startId, links, cyberneticMode, layers, lpc,
                   activeNode, hierarchicalLayers, previousLayers, layout2D,
                   showFeedback, feedbackNodeId, timers, randVars, viewVars, auxVars>>

StoreNext ==
    \/ \E id \in Range(nodes) : recordVisit(id)
    \/ \E nodeId \in Range(nodes), type \in FeedbackKinds : recordFeedback(nodeId, type)

StoreSpec == StoreInit /\ [][StoreNext]_vars

SessionNeverThrows ==
    /\ DOMAIN explorationData = Range(nodes)
    /\ ~thrown

(***************************************************************************)
(* getAdaptiveHierarchicalLayers, one round of its while loops per step:   *)
(* claim C16.  trav holds the locals of the call; the layers returned are  *)
(* left in layers.                                                         *)
(***************************************************************************)
\* the exploration maps the stepwise call is run with: none, and one that
\* orders B before the rest
TraverseMaps ==
    { << >>,
      [id \in NodeIds |->
          IF id = "B"
          THEN [visits |-> 1, insightful |-> 1, neutral |-> 0, familiar |-> 0]
          ELSE NoFeedback] }

\* state before the call: the caller has no edge in its list yet
TraverseInit ==
    /\ LayersIdle
    /\ RandIdle
    /\ OtherIdle

\* the caller's edge list grows by one edge
TraverseInput ==
    /\ lpc = "idle"
    /\ Len(links) < MaxLinks
    /\ \E l \in RawLinks : links' = Append(links, l)
    /\ UNCHANGED <<startId, explorationData, cyberneticMode, layers, lpc,
                   randVars, otherVars>>

\* the call is entered with the caller's edge list: the other parameters are
\* bound and the locals of both loops are initialized
TraverseCall ==
    /\ lpc = "idle"
    /\ startId' \in NodeIds
    /\ explorationData' \in TraverseMaps
    /\ cyberneticMode' \in BOOLEAN
    /\ layers' = <<>>
    /\ lpc' = "first"
    /\ trav' = [tempLevel |-> <<startId'>>, tempVisited |-> {}, allNodesInPath |-> <<>>,
                currentLevel |-> <<startId'>>, visited |-> {}, level |-> 0,
                firstRounds |-> 0, normalRounds |-> 0]
    /\ UNCHANGED <<links, randVars, viewVars, sessVars,
                   scoreOut, positions, lay, finalPositions, returned>>

\* a round of the first loop that gets past the break
FirstLoopRound ==
    /\ lpc = "first"
    /\ trav.tempLevel # <<>>
    /\ LET validNodes == ValidNodes(trav.tempLevel, trav.tempVisited) IN
       /\ validNodes # <<>>
       /\ trav' = [trav EXCEPT !.tempVisited = @ \cup Range(validNodes),
                               !.allNodesInPath = @ \o validNodes,
                               !.tempLevel = ExpandLevel(validNodes, links),
                               !.firstRounds = @ + 1]
    /\ UNCHANGED <<layerVars, randVars, viewVars, sessVars,
                   scoreOut, positions, lay, finalPositions, returned>>

\* the first loop ends; the adaptive branch sorts, distributes and returns,
\* otherwise the second loop is entered
FirstLoopExit ==
    /\ lpc = "first"
    /\ \/ trav.tempLevel = <<>>
       \/ ValidNodes(trav.tempLevel, trav.tempVisited) = <<>>
    /\ IF cyberneticMode /\ Len(trav.allNodesInPath) > 1
       THEN /\ layers' = DistributeIntoLayers(trav.allNodesInPath[1],
                             SortByScore(Tail(trav.allNodesInPath), explorationData))
            /\ lpc' = "returned"
       ELSE /\ layers' = layers
            /\ lpc' = "normal"
    /\ UNCHANGED <<startId, links, explorationData, cyberneticMode, randVars, viewVars, sessVars,
                   auxVars>>

\* a round of the second loop that gets past the break
NormalLoopRound ==
    /\ lpc = "normal"
    /\ trav.currentLevel # <<>>
    /\ LET validNodes == ValidNodes(trav.currentLevel, trav.visited) IN
       /\ validNodes # <<>>
       /\ layers' = Append(layers, [level |-> trav.level, nodes |-> validNodes])
       /\ trav' = [trav EXCEPT !.visited = @ \cup Range(validNodes),
                               !.currentLevel = ExpandLevel(validNodes, links),
                               !.level = @ + 1,
                               !.normalRounds = @ + 1]
    /\ lpc' = lpc
    /\ UNCHANGED <<startId, links, explorationData, cyberneticMode, randVars, viewVars, sessVars,
                   scoreOut, positions, lay, finalPositions, returned>>

\* the second loop ends and the layers are returned
NormalLoopExit ==
    /\ lpc = "normal"
    /\ \/ trav.currentLevel = <<>>
       \/ ValidNodes(trav.currentLevel, trav.visited) = <<>>
    /\ lpc' = "returned"
    /\ UNCHANGED <<startId, links, explorationData, cyberneticMode, layers,
                   randVars, viewVars, sessVars, auxVars>>

TraverseNext ==
    \/ TraverseInput
    \/ TraverseCall
    \/ FirstLoopRound
    \/ FirstLoopExit
    \/ NormalLoopRound
    \/ NormalLoopExit

TraverseSpec == TraverseInit /\ [][TraverseNext]_vars

\* the call is a synchronous function: while a step is possible, one is taken
FairTraverseSpec == TraverseSpec /\ WF_vars(TraverseNext)

\* the node ids that occur in the call: the start and the ends of the edges
DistinctNodes ==
    {startId} \cup { links[i].source : i \in DOMAIN links }
              \cup { links[i].target : i \in DOMAIN links }

\* the stepwise call returns what the call taken whole returns
TraverseAgreesWithCall ==
    (lpc = "returned") =>
        layers = getAdaptiveHierarchicalLayers(startId, links, explorationData,
                                               cyberneticMode)

\* C16: getAdaptiveHierarchicalLayers terminates for every finite edge list
\* and start node in both modes, cycles, self-loops and repeated edges
\* included, and the number of layer-expansion rounds of either loop is at
\* most the number of distinct nodes.
C16_TraversalTerminates ==
    /\ <>(lpc = "returned")
    /\ [](lpc # "idle" =>
             /\ trav.firstRounds <= Cardinality(DistinctNodes)
             /\ trav.normalRounds <= Cardinality(DistinctNodes))

\* the three-node cycle was walked in normal mode: the call has returned
\* after exactly as many rounds of each loop as there are nodes
W16_CycleTakesOneRoundPerNode ==
    /\ lpc = "returned"
    /\ ~cyberneticMode
    /\ links = <<Link("A", "B"), Link("B", "C"), Link("C", "A")>>
    /\ trav.firstRounds = 3
    /\ trav.normalRounds = 3

(***************************************************************************)
(* forceDirectedLayout, one loop round per step, and the two places that   *)
(* put its result into layout2D: the useState initializer and              *)
(* handleRandomize.  Claims C17 and C18.                                   *)
(*                                                                         *)
(* positions is the Map the running call builds; an entry is kept as its   *)
(* history (see forceDirectedLayout above).  lay holds the locals of the   *)
(* call: the randomize parameter, the loop counter iter, the statement     *)
(* reached (phase) and the number of Math.random() calls made so far.      *)
(* layout2D can be read between any two steps.                             *)
(***************************************************************************)
\* (variant: the map under construction is itself the state)
PublishedWhileBuilding(current, built, finished) == built

\* setLayout2D(forceDirectedLayout(...)): the state keeps its map until the
\* call has returned, and is then swapped to the map returned
Published(current, built, finished) == IF finished THEN built ELSE current

\* (variant: jitter in the early rounds of every call)
JitterAlways(randomize, iter) == 3 * iter < iterations(randomize)

\* randomize && iter < iterations / 3
Jitter(randomize, iter) == randomize /\ 3 * iter < iterations(randomize)

\* state while the component is being constructed: no layout yet
LayoutInit ==
    /\ links \in SessionLinkLists
    /\ explorationData = [id \in Range(nodes) |-> NoFeedback]
    /\ cyberneticMode = FALSE
    /\ startId = "A"
    /\ layers = <<>>
    /\ lpc = "idle"
    /\ SessIdle
    /\ RandIdle
    /\ ViewIdle
    /\ ScoreIdle
    /\ TravIdle
    /\ LayoutIdle
    /\ NormalizeIdle

\* entry of a call: const positions = new Map()
LayoutCall(randomize) ==
    /\ lay = << >>
    /\ positions' = << >>
    /\ lay' = [phase |-> "initialize", randomize |-> randomize, iter |-> 0,
               randomCalls |-> 0]
    /\ layout2D' = Published(layout2D, positions', FALSE)
    /\ UNCHANGED <<layerVars, randVars, viewVars, activeNode, hierarchicalLayers, previousLayers,
                   showFeedback, feedbackNodeId, timers, thrown,
                   scoreOut, trav, finalPositions, returned>>

\* the initializer of useState: forceDirectedLayout(nodes, links, false)
LayoutConstruct ==
    /\ layout2D = << >>
    /\ LayoutCall(FALSE)

\* handleRandomize: forceDirectedLayout(nodes, links, true) if no node is active
LayoutRandomize ==
    /\ layout2D # << >>
    /\ activeNode = Null
    /\ LayoutCall(TRUE)

\* "Initialize positions": on the circle, or from four random numbers per node
LayoutInitialize ==
    /\ lay # << >>
    /\ lay.phase = "initialize"
    /\ positions' = [id \in Range(nodes) |->
                        [steps |-> 0, stage |-> "initialized", random |-> lay.randomize]]
    /\ lay' = [lay EXCEPT !.phase = "iterate",
                          !.randomCalls = IF lay.randomize THEN @ + 4 * Len(nodes) ELSE @]
    /\ layout2D' = Published(layout2D, positions', FALSE)
    /\ UNCHANGED <<layerVars, randVars, viewVars, activeNode, hierarchicalLayers, previousLayers,
                   showFeedback, feedbackNodeId, timers, thrown,
                   scoreOut, trav, finalPositions, returned>>

\* one round of "Force simulation": repulsion, attraction, then every
\* position moved by its velocity and, in the jitter rounds, by two random
\* numbers
LayoutIterate ==
    /\ lay # << >>
    /\ lay.phase = "iterate"
    /\ lay.iter < iterations(lay.randomize)
    /\ positions' = [id \in DOMAIN positions |->
                        [steps |-> positions[id].steps + 1,
                         stage |-> "simulating",
                         random |-> positions[id].random \/ Jitter(lay.randomize, lay.iter)]]
    /\ lay' = [lay EXCEPT !.iter = @ + 1,
                          !.randomCalls = IF Jitter(lay.randomize, lay.iter)
                                          THEN @ + 2 * Len(nodes) ELSE @]
    /\ layout2D' = Published(layout2D, positions', FALSE)
    /\ UNCHANGED <<layerVars, randVars, viewVars, activeNode, hierarchicalLayers, previousLayers,
                   showFeedback, feedbackNodeId, timers, thrown,
                   scoreOut, trav, finalPositions, returned>>

\* "Normalize to fit within viewport", after the last round
LayoutNormalize ==
    /\ lay # << >>
    /\ lay.phase = "iterate"
    /\ lay.iter >= iterations(lay.randomize)
    /\ positions' = [id \in DOMAIN positions |->
                        [positions[id] EXCEPT !.stage = "normalized"]]
    /\ lay' = [lay EXCEPT !.phase = "return"]
    /\ layout2D' = Published(layout2D, positions', FALSE)
    /\ UNCHANGED <<layerVars, randVars, viewVars, activeNode, hierarchicalLayers, previousLayers,
                   showFeedback, feedbackNodeId, timers, thrown,
                   scoreOut, trav, finalPositions, returned>>

\* return positions, and the caller stores the map returned
LayoutReturn ==
    /\ lay # << >>
    /\ lay.phase = "return"
    /\ layout2D' = Published(layout2D, positions, TRUE)
    /\ positions' = << >>
    /\ lay' = << >>
    /\ UNCHANGED <<layerVars, randVars, viewVars, activeNode, hierarchicalLayers, previousLayers,
                   showFeedback, feedbackNodeId, timers, thrown,
                   scoreOut, trav, finalPositions, returned>>

LayoutNext ==
    \/ LayoutConstruct
    \/ LayoutRandomize
    \/ LayoutInitialize
    \/ LayoutIterate
    \/ LayoutNormalize
    \/ LayoutReturn

LayoutSpec == LayoutInit /\ [][LayoutNext]_vars

\* the stepwise call returns the map the call taken whole returns
LayoutAgreesWithCall ==
    (lay # << >> /\ lay.phase = "return") =>
        positions = forceDirectedLayout(nodes, links, lay.randomize)

\* C17: the layout2D the rendering reads is at every moment the complete,
\* normalized result of one finished forceDirectedLayout call: every node has
\* an entry, every entry has gone through all rounds of that one call and
\* through the normalization pass.  A call builds a map of its own, and the
\* state is swapped to it once, after the call.
C17_Layout2DIsFinishedResult ==
    (layout2D # << >>) =>
        \E randomize \in BOOLEAN :
            /\ DOMAIN layout2D = Range(nodes)
            /\ \A id \in DOMAIN layout2D :
                  /\ layout2D[id].stage = "normalized"
                  /\ layout2D[id].steps = iterations(randomize)
                  /\ layout2D[id].random = randomize

\* a randomizing call is in the middle of its rounds while layout2D still
\* holds the result of the call made at construction
W17_OldLayoutReadDuringCall ==
    /\ lay # << >>
    /\ lay.randomize
    /\ lay.phase = "iterate"
    /\ lay.iter = 50
    /\ layout2D # << >>
    /\ \A id \in DOMAIN layout2D : ~layout2D[id].random

\* C18: a call with randomize = false consults no random source and runs
\* exactly 100 rounds, so its result is a function of its inputs alone: no
\* value of Math.random has flowed into any position it returns.
C18_NoRandomnessWithoutRandomize ==
    (lay # << >> /\ ~lay.randomize) =>
        /\ lay.randomCalls = 0
        /\ lay.iter <= 100
        /\ \A id \in DOMAIN positions : ~positions[id].random
        /\ (lay.phase = "return") =>
               /\ lay.iter = 100
               /\ \A id \in DOMAIN positions : positions[id].steps = 100

\* the call made at construction is about to return after its 100 rounds
W18_DeterministicCallReturns ==
    /\ lay # << >>
    /\ ~lay.randomize
    /\ lay.phase = "return"
    /\ lay.iter = 100
    /\ DOMAIN positions = Range(nodes)

\* a call with randomize = true does consult the random source
RandomizingCallDrawsRandomNumbers ==
    (lay # << >> /\ lay.randomize /\ lay.phase = "return") =>
        /\ lay.randomCalls = 4 * Len(nodes) + 67 * 2 * Len(nodes)
        /\ lay.iter = 200
        /\ \A id \in DOMAIN positions : positions[id].random

(***************************************************************************)
(* forceDirectedLayout: "Normalize to fit within viewport" on its own.     *)
(* Claims C19 and C20.                                                     *)
(*                                                                         *)
(* The pass is applied to the positions the simulation loop has left, here *)
(* any placement of one to MaxLayoutNodes nodes on an integer grid.  Its   *)
(* result is kept exactly: since                                           *)
(*     (x - centerX) * scale                                               *)
(*         = (x - (minX + maxX) / 2) * (targetSize / maxRange)             *)
(*         = (2 * x - (minX + maxX)) * targetSize / (2 * maxRange)         *)
(* every coordinate returned is a numerator over the common denominator    *)
(* den = 2 * maxRange.  Rounding to doubles is outside the model.          *)
(***************************************************************************)
\* most nodes handed to the pass
MaxLayoutNodes == 3
\* largest grid coordinate of a position before the pass
MaxCoord == 2

GridPoints == [x : 0..MaxCoord, y : 0..MaxCoord]

NormalizeInputs == UNION { [1..n -> GridPoints] : n \in 1..MaxLayoutNodes }

SetMin(S) == CHOOSE m \in S : \A e \in S : m <= e

SetMax(S) == CHOOSE m \in S : \A e \in S : m >= e

\* (variant: the scale is taken from the x range alone)
maxRangeOfX(rangeX, rangeY) == IF rangeX = 0 THEN 1 ELSE rangeX

\* Math.max(rangeX, rangeY) || 1
maxRange(rangeX, rangeY) ==
    LET larger == IF rangeX >= rangeY THEN rangeX ELSE rangeY
    IN  IF larger = 0 THEN 1 ELSE larger

\* (variant: recentred on the lower corner of the box)
twiceCenterAtMin(minV, maxV) == 2 * minV

\* 2 * centerX, for centerX = (minX + maxX) / 2
twiceCenter(minV, maxV) == minV + maxV

targetSize == 8

Normalize(ps) ==
    LET minX == SetMin({ ps[i].x : i \in DOMAIN ps })
        maxX == SetMax({ ps[i].x : i \in DOMAIN ps })
        minY == SetMin({ ps[i].y : i \in DOMAIN ps })
        maxY == SetMax({ ps[i].y : i \in DOMAIN ps })
        rangeX == maxX - minX
        rangeY == maxY - minY
    IN  [den |-> 2 * maxRange(rangeX, rangeY),
         pos |-> [i \in DOMAIN ps |->
                    [x |-> (2 * ps[i].x - twiceCenter(minX, maxX)) * targetSize,
                     y |-> (2 * ps[i].y - twiceCenter(minY, maxY)) * targetSize]]]

NormalizeInit ==
    /\ finalPositions \in NormalizeInputs
    /\ returned = << >>
    /\ lpc = "normalize"
    /\ startId = "A"
    /\ links = <<>>
    /\ explorationData = << >>
    /\ cyberneticMode = FALSE
    /\ layers = <<>>
    /\ RandIdle
    /\ ViewIdle
    /\ SessIdle
    /\ ScoreIdle
    /\ TravIdle
    /\ LayoutIdle

CallNormalize ==
    /\ lpc = "normalize"
    /\ returned' = Normalize(finalPositions)
    /\ lpc' = "normalized"
    /\ UNCHANGED <<startId, links, explorationData, cyberneticMode, layers,
                   randVars, viewVars, sessVars, scoreOut, trav, positions, lay, finalPositions>>

NormalizeNext == CallNormalize

NormalizeSpec == NormalizeInit /\ [][NormalizeNext]_vars

\* the returned positions, as sets of numerators over returned.den
ReturnedXs == { returned.pos[i].x : i \in DOMAIN returned.pos }

ReturnedYs == { returned.pos[i].y : i \in DOMAIN returned.pos }

ReturnedRangeX == SetMax(ReturnedXs) - SetMin(ReturnedXs)

ReturnedRangeY == SetMax(ReturnedYs) - SetMin(ReturnedYs)

LargerReturnedRange ==
    IF ReturnedRangeX >= ReturnedRangeY THEN ReturnedRangeX ELSE ReturnedRangeY

\* all nodes were left on one point (always so for a single node)
AllCoincide == \A i, j \in DOMAIN finalPositions : finalPositions[i] = finalPositions[j]

RECURSIVE SumSeq(_)
SumSeq(s) == IF s = <<>> THEN 0 ELSE Head(s) + SumSeq(Tail(s))

\* C19, as claimed: for any output, for any node set, the larger of the
\* x-range and the y-range of the returned positions equals 8.
X19_LargerRangeIsEight ==
    (lpc = "normalized") => LargerReturnedRange = 8 * returned.den

\* C19, amended: when the positions left by the simulation are not all the
\* same point, the larger of the x-range and the y-range of the returned
\* positions equals 8; when they are all the same point (a single node),
\* both ranges are 0 and every returned position is the origin.
C19_LargerRangeIsEightUnlessDegenerate ==
    (lpc = "normalized") =>
        /\ returned.den > 0
        /\ (~AllCoincide) => LargerReturnedRange = 8 * returned.den
        /\ AllCoincide =>
               \A i \in DOMAIN returned.pos :
                   returned.pos[i].x = 0 /\ returned.pos[i].y = 0

\* three nodes left on distinct points, spread wider in y than in x: the
\* returned y-range is 8 and the returned x-range is 4
W19_WiderInY ==
    /\ lpc = "normalized"
    /\ finalPositions = <<[x |-> 0, y |-> 0], [x |-> 1, y |-> 2], [x |-> 1, y |-> 1]>>
    /\ ReturnedRangeY = 8 * returned.den
    /\ ReturnedRangeX = 4 * returned.den

\* C20, as claimed: for any output the centroid (the mean) of all returned
\* positions is at the origin.
X20_CentroidAtOrigin ==
    (lpc = "normalized") =>
        /\ SumSeq([i \in DOMAIN returned.pos |-> returned.pos[i].x]) = 0
        /\ SumSeq([i \in DOMAIN returned.pos |-> returned.pos[i].y]) = 0

\* C20, amended: for any output the centre of the bounding box of the
\* returned positions is at the origin: the least and the greatest returned
\* coordinate of either axis are opposite numbers.
C20_BoundingBoxCentreAtOrigin ==
    (lpc = "normalized") =>
        /\ SetMin(ReturnedXs) + SetMax(ReturnedXs) = 0
        /\ SetMin(ReturnedYs) + SetMax(ReturnedYs) = 0

\* two of three nodes share their x: the box is centred on the origin while
\* the mean of the returned x coordinates is not 0
W20_BoxCentredMeanOff ==
    /\ lpc = "normalized"
    /\ finalPositions = <<[x |-> 0, y |-> 0], [x |-> 0, y |-> 1], [x |-> 2, y |-> 2]>>
    /\ SetMin(ReturnedXs) + SetMax(ReturnedXs) = 0
    /\ SumSeq([i \in DOMAIN returned.pos |-> returned.pos[i].x]) < 0

(***************************************************************************)
(* Breadth-first discovery order, defined without the traversal's loops:   *)
(* the start, then level by level every node not yet discovered, each      *)
(* once, in the order in which the edges out of the previous level (taken  *)
(* in that level's order, and per node in edge-list order) first name it.  *)
(***************************************************************************)
RECURSIVE AppendNew(_, _, _)
AppendNew(found, fresh, candidates) ==
    IF candidates = <<>>
    THEN fresh
    ELSE LET c == Head(candidates)
         IN  IF c \in Range(found) \cup Range(fresh)
             THEN AppendNew(found, fresh, Tail(candidates))
             ELSE AppendNew(found, Append(fresh, c), Tail(candidates))

\* the targets of the edges out of the nodes of level, in level order and
\* per node in edge-list order
RECURSIVE TargetsOf(_, _)
TargetsOf(level, ls) ==
    IF level = <<>>
    THEN <<>>
    ELSE SelectSeq(ls, LAMBDA l : l.source = Head(level)) \o TargetsOf(Tail(level), ls)

RECURSIVE BfsDiscover(_, _, _)
BfsDiscover(found, level, ls) ==
    LET targets == TargetsOf(level, ls)
        fresh == AppendNew(found, <<>>, [i \in DOMAIN targets |-> targets[i].target])
    IN  IF fresh = <<>> THEN found ELSE BfsDiscover(found \o fresh, fresh, ls)

BfsDiscoveryOrder(start, ls) == BfsDiscover(<<start>>, <<start>>, ls)

\* position of the first entry of s that holds x (0: none)
FirstIndex(s, x) ==
    IF x \in Range(s) THEN CHOOSE i \in DOMAIN s : s[i] = x /\ \A j \in 1..(i - 1) : s[j] # x
    ELSE 0

\* no node of the map has any feedback
AllZeroFeedback ==
    \A n \in DOMAIN explorationData :
        explorationData[n].insightful + explorationData[n].neutral
          + explorationData[n].familiar = 0

\* the layers of level >= 1 are the chunks of three of their concatenation
RemainderInChunksOfThree ==
    \A i \in 2..Len(layers) :
        /\ Len(layers[i].nodes) <= 3
        /\ (i < Len(layers)) => Len(layers[i].nodes) = 3

\* the part of C21 about the sort alone: two different non-start nodes of
\* equal score stand, by their first entries, in discovery order
EqualScoresKeepDiscoveryOrder ==
    AdaptiveReturned =>
        LET order == BfsDiscoveryOrder(startId, links) IN
        \A a, b \in Range(order) \ {startId} :
            (a # b /\ ScoreDiff(Score(a), Score(b)) = 0
                /\ FirstIndex(order, a) < FirstIndex(order, b))
            => /\ FirstIndex(Remainder, a) > 0
               /\ FirstIndex(Remainder, a) < FirstIndex(Remainder, b)

\* C21: in adaptive mode non-start nodes of equal score keep, in the
\* concatenation of the layers of level >= 1, the relative order they had
\* in breadth-first discovery order; with an empty or all-zero feedback map
\* that concatenation is the discovery order after the start, cut into
\* chunks of 3.
X21_EqualScoresKeepBfsOrder ==
    /\ EqualScoresKeepDiscoveryOrder
    /\ (AdaptiveReturned /\ AllZeroFeedback) =>
           /\ Remainder = Tail(BfsDiscoveryOrder(startId, links))
           /\ RemainderInChunksOfThree

\* on the inputs where the traversal lists no node twice, the whole of C21
\* holds
EqualScoresKeepBfsOrderWithoutRepeats ==
    (AdaptiveReturned /\ AllZeroFeedback /\ NoDuplicates(Remainder)) =>
        /\ Remainder = Tail(BfsDiscoveryOrder(startId, links))
        /\ RemainderInChunksOfThree

(***************************************************************************)
(* The third pass of randomizeConnections.                                 *)
(***************************************************************************)
\* what holds in every state of the third pass and at the return
ThirdPassState ==
    rpc \in {"pass3", "returned"} =>
        /\ \A id \in Range(nodeIds) : OutDegree(id) >= 3 /\ InDegree(id) >= 3
        /\ attempts <= targetNumLinks * 10

\* what holds of every step taken in the third pass: an edge is added only
\* below the target, one at a time, and at the target the only step is the
\* return
ThirdPassStep ==
    rpc = "pass3" =>
        /\ NumLinks' \in {NumLinks, NumLinks + 1}
        /\ NumLinks' > NumLinks => NumLinks < targetNumLinks
        /\ NumLinks >= targetNumLinks =>
              rpc' = "returned" /\ newLinks' = newLinks /\ attempts' = attempts

(***************************************************************************)
(* C22: the third pass of randomizeConnections runs only after every node  *)
(* has out-degree >= 3 and in-degree >= 3, makes at most targetCount * 10  *)
(* draws, adds an edge only while the edge count is below targetCount, and *)
(* stops as soon as the edge count reaches targetCount.                    *)
(***************************************************************************)
C22_ThirdPassBounded == [](ThirdPassState) /\ [][ThirdPassStep]_vars

\* the third pass has drawn at least twice and its last accepted draw has
\* brought the edge count to the target: the loop is about to stop
W22_ThirdPassReachedTarget ==
    /\ rpc = "pass3"
    /\ attempts > 1
    /\ NumLinks = targetNumLinks
    /\ \E id \in Range(nodeIds) : OutDegree(id) > 3

\* the other way out of the loop: all targetCount * 10 draws are used up
\* and the edge count is still below the target
ThirdPassUsesAllAttempts ==
    /\ rpc = "returned"
    /\ attempts = targetNumLinks * 10
    /\ NumLinks < targetNumLinks

(***************************************************************************)
(* C23: in a session of the 3D map, whenever a node is active the stored   *)
(* current Layering equals getAdaptiveHierarchicalLayers(activeNode,       *)
(* links, current counters, current mode): no feedback submission or mode  *)
(* toggle leaves a Layering computed from older counters or the other mode.*)
(***************************************************************************)
C23_LayeringIsCurrent ==
    activeNode # Null =>
        hierarchicalLayers =
            getAdaptiveHierarchicalLayers(activeNode, links, explorationData, cyberneticMode)

\* the counters at the start of the session
InitialExplorationData == [id \in Range(nodes) |-> NoFeedback]

\* a node is active in adaptive mode, and the feedback submitted since it
\* was selected has changed its Layering: the stored one differs both from
\* the one it replaced and from the one the initial counters give
W23_FeedbackRegeneratedLayering ==
    /\ activeNode # Null
    /\ cyberneticMode
    /\ previousLayers # <<>>
    /\ previousLayers[1].nodes = <<activeNode>>
    /\ hierarchicalLayers # previousLayers
    /\ hierarchicalLayers #
           getAdaptiveHierarchicalLayers(activeNode, links, InitialExplorationData, TRUE)

(***************************************************************************)
(* C24: in a session of the 3D map, activeNode is null exactly when the    *)
(* current Layering is empty; the previous Layering is empty whenever      *)
(* activeNode is null; and whenever activeNode is not null, layer 0 of the *)
(* current Layering is [activeNode].                                       *)
(***************************************************************************)
C24_ActiveNodeAndLayering ==
    /\ (activeNode = Null) <=> (hierarchicalLayers = <<>>)
    /\ (activeNode = Null) => (previousLayers = <<>>)
    /\ (activeNode # Null) =>
           /\ hierarchicalLayers[1].level = 0
           /\ hierarchicalLayers[1].nodes = <<activeNode>>

\* a second node was selected in adaptive mode while the first was active:
\* the previous Layering is the first node's, the current one the second's
W24_SecondNodeSelected ==
    /\ activeNode # Null
    /\ previousLayers # <<>>
    /\ previousLayers[1].nodes # <<activeNode>>
    /\ hierarchicalLayers[1].nodes = <<activeNode>>

\* no node is active after a session with a selection, a deselection in
\* adaptive mode and a feedback submission
NoNodeActiveAfterFeedback ==
    /\ activeNode = Null
    /\ TotalVisits(explorationData) > 0
    /\ TotalFeedback(explorationData) > 0
    /\ hierarchicalLayers = <<>>
    /\ previousLayers = <<>>

(***************************************************************************)
(* C25: the feedback prompt is shown (showFeedback = TRUE) only while      *)
(* cybernetic mode is on, in every interleaving of user events with the    *)
(* delayed prompt timer that a node selection in cybernetic mode starts.   *)
(***************************************************************************)
X25_PromptOnlyInCyberneticMode == showFeedback => cyberneticMode

\* the timer's part in it: no prompt timer is pending while the mode is off
NoTimerPendingOutsideCyberneticMode == timers # <<>> => cyberneticMode

(***************************************************************************)
(* The two modes of getAdaptiveHierarchicalLayers on the same input.       *)
(***************************************************************************)
\* the node entries of a Layering, layer after layer
RECURSIVE EntriesOf(_)
EntriesOf(lys) ==
    IF lys = <<>> THEN <<>> ELSE Head(lys).nodes \o EntriesOf(Tail(lys))

\* the two sequences hold every node the same number of times
SameEntries(s, t) ==
    \A n \in Range(s) \cup Range(t) : Occurrences(s, n) = Occurrences(t, n)

(***************************************************************************)
(* C26: for every edge list, start node and feedback map, the adaptive     *)
(* Layering and the non-adaptive Layering hold the same multiset of node   *)
(* entries: the mode only moves nodes between layers.                      *)
(***************************************************************************)
C26_ModesHoldSameEntries ==
    AdaptiveReturned =>
        SameEntries(EntriesOf(layers),
                    EntriesOf(getAdaptiveHierarchicalLayers(startId, links,
                                                            explorationData, FALSE)))

\* an adaptive Layering that differs from the non-adaptive one of its input:
\* a node at two hops stands in layer 1, where feedback has put it first
W26_AdaptiveMovesNodes ==
    /\ AdaptiveReturned
    /\ Len(layers) = 2
    /\ Len(layers[2].nodes) = 2
    /\ Len(getAdaptiveHierarchicalLayers(startId, links, explorationData, FALSE)) = 3
    /\ HasFeedback(layers[2].nodes[1])
    /\ layers[2].nodes[1] \notin Successors({startId}, links)

(***************************************************************************)
(* bfsPath (CyberneticDesignNetwork.tsx) and findNodePaths (2D network):   *)
(* the two queue-based traversals.  The locals of a call are a record      *)
(* [visited, queue, path]; one round of the while loop is one step.        *)
(***************************************************************************)
\* const visited = new Set(); const queue = [startId]; const path = []
TraversalLocals(startNode) == [visited |-> {}, queue |-> <<startNode>>, path |-> <<>>]

\* (a loop round that takes the entry at the back of the queue)
BfsPathIterationFromBack(st, ls) ==
    LET current == st.queue[Len(st.queue)]
        rest    == SubSeq(st.queue, 1, Len(st.queue) - 1)
    IN  IF current \in st.visited
        THEN [st EXCEPT !.queue = rest]
        ELSE LET seen == st.visited \cup {current}
             IN  [visited |-> seen,
                  queue   |-> rest \o SelectSeq(Outgoing(current, ls), LAMBDA n : n \notin seen),
                  path    |-> Append(st.path, current)]

\* one round of bfsPath: queue.shift(); a visited entry is skipped, another
\* is added to visited and to the path, and its targets that are not in
\* visited are pushed
BfsPathIteration(st, ls) ==
    LET current == Head(st.queue)
        rest    == Tail(st.queue)
    IN  IF current \in st.visited
        THEN [st EXCEPT !.queue = rest]
        ELSE LET seen == st.visited \cup {current}
             IN  [visited |-> seen,
                  queue   |-> rest \o SelectSeq(Outgoing(current, ls), LAMBDA n : n \notin seen),
                  path    |-> Append(st.path, current)]

\* one round of findNodePaths: the same, but every target is pushed
FindNodePathsIteration(st, ls) ==
    LET current == Head(st.queue)
        rest    == Tail(st.queue)
    IN  IF current \in st.visited
        THEN [st EXCEPT !.queue = rest]
        ELSE [visited |-> st.visited \cup {current},
              queue   |-> rest \o Outgoing(current, ls),
              path    |-> Append(st.path, current)]

RECURSIVE BfsPathLoop(_, _)
BfsPathLoop(st, ls) ==
    IF st.queue = <<>> THEN st.path ELSE BfsPathLoop(BfsPathIteration(st, ls), ls)

bfsPath(start, ls) == BfsPathLoop(TraversalLocals(start), ls)

RECURSIVE FindNodePathsLoop(_, _)
FindNodePathsLoop(st, ls) ==
    IF st.queue = <<>> THEN st.path ELSE FindNodePathsLoop(FindNodePathsIteration(st, ls), ls)

findNodePaths(nodeId, ls) == FindNodePathsLoop(TraversalLocals(nodeId), ls)

\* the two routines are run one after the other on the same input
PathInit ==
    /\ startId \in NodeIds
    /\ links \in LinkLists
    /\ explorationData = << >>
    /\ cyberneticMode = FALSE
    /\ layers = <<>>
    /\ lpc = "idle"
    /\ bfs = TraversalLocals(startId)
    /\ fnp = << >>
    /\ ppc = "bfsPath"
    /\ NetIdle
    /\ RandIdle
    /\ SessIdle
    /\ ScoreIdle
    /\ TravIdle
    /\ LayoutIdle
    /\ NormalizeIdle

BfsPathRound ==
    /\ ppc = "bfsPath"
    /\ bfs.queue # <<>>
    /\ bfs' = BfsPathIteration(bfs, links)
    /\ UNCHANGED <<fnp, ppc, netVars, layerVars, randVars, sessVars, auxVars>>

\* return path; findNodePaths is called next
BfsPathReturn ==
    /\ ppc = "bfsPath"
    /\ bfs.queue = <<>>
    /\ ppc' = "findNodePaths"
    /\ fnp' = TraversalLocals(startId)
    /\ UNCHANGED <<bfs, netVars, layerVars, randVars, sessVars, auxVars>>

FindNodePathsRound ==
    /\ ppc = "findNodePaths"
    /\ fnp.queue # <<>>
    /\ fnp' = FindNodePathsIteration(fnp, links)
    /\ UNCHANGED <<bfs, ppc, netVars, layerVars, randVars, sessVars, auxVars>>

FindNodePathsReturn ==
    /\ ppc = "findNodePaths"
    /\ fnp.queue = <<>>
    /\ ppc' = "done"
    /\ UNCHANGED <<bfs, fnp, netVars, layerVars, randVars, sessVars, auxVars>>

PathNext ==
    \/ BfsPathRound
    \/ BfsPathReturn
    \/ FindNodePathsRound
    \/ FindNodePathsReturn

PathSpec == PathInit /\ [][PathNext]_vars

\* the loops run step by step end with what the operators compute
PathsAgreeWithCalls ==
    ppc = "done" =>
        /\ bfs.path = bfsPath(startId, links)
        /\ fnp.path = findNodePaths(startId, links)

(***************************************************************************)
(* C27: bfsPath and findNodePaths return the same sequence for every edge  *)
(* list and start node: the start first, then every reachable node exactly *)
(* once, in breadth-first discovery order.                                 *)
(***************************************************************************)
C27_TraversalsAgree ==
    ppc = "done" =>
        /\ bfs.path = fnp.path
        /\ Head(fnp.path) = startId
        /\ Range(fnp.path) = Reachable(startId, links)
        /\ NoDuplicates(fnp.path)
        /\ fnp.path = BfsDiscoveryOrder(startId, links)

\* both have returned on an input where findNodePaths took more rounds than
\* there are nodes: a node was in its queue more than once, and its path
\* still holds the three nodes once each
W27_RepeatedQueueEntrySkipped ==
    /\ ppc = "done"
    /\ Len(fnp.path) = 3
    /\ \E n \in NodeIds :
          Cardinality({ i \in DOMAIN links : links[i].target = n
                                              /\ links[i].source \in Range(fnp.path) }) > 1

(***************************************************************************)
(* CyberneticDesignNetwork: one session of the 2D network.  nodeIds holds  *)
(* the ids of processedNodes.  Every handler is one action.  A click that  *)
(* selects a node starts a cascade of timers (propagateFeedback); a        *)
(* cascade keeps the link list and the visited set of its closure.         *)
(***************************************************************************)
\* most cascades that have timers pending at the same time
MaxPropagations == 1

\* if (depth > 3 || ...) return
maxDepth == 3

\* setTimeout(..., i * 150) and setTimeout(..., 200), in milliseconds
pulseStagger == 150

propagateDelay == 200

\* the 2D network of a session has four nodes, the fewest for which
\* randomizeConnections returns
NetNodeIds == SubSeq(NodePool, 1, 4)

\* link lists of data.json the sessions are run on: a cycle with a chord and
\* a node without links, and a list with a repeated link
NetLinkLists ==
    { <<Link("a", "b"), Link("b", "c"), Link("c", "a"), Link("a", "c")>>,
      <<Link("a", "b"), Link("a", "b"), Link("b", "d")>> }

\* a list randomizeConnections returns on ids: the first pass gives every
\* node three targets, here the next three of the list, after which every
\* node has three incoming links and, with a target count of at most three
\* per node, the third pass adds none
GeneratedLinks(ids) ==
    [k \in 1..(minConnectionsPerNode * Len(ids)) |->
        LET s == (k - 1) \div minConnectionsPerNode
            j == (k - 1) % minConnectionsPerNode
        IN  Link(ids[s + 1], ids[((s + j + 1) % Len(ids)) + 1])]

\* randomizeConnections(): the list the call is taken to return
RandomizeResults(ids) ==
    IF ids = <<>> THEN {<<>>} ELSE {GeneratedLinks(ids)}

\* a cascade with nothing pending; log lists the expansions made, each as
\* <<node, depth>>, and is kept for the properties only
EmptyCascade == [links |-> <<>>, visited |-> {}, timers |-> <<>>, log |-> <<>>]

\* timers fire in the order of their due times, and in the order of their
\* registration when these are equal (due times count from the click)
RECURSIVE InsertTimer(_, _)
InsertTimer(pending, t) ==
    IF pending = <<>>
    THEN <<t>>
    ELSE IF Head(pending).due <= t.due
         THEN <<Head(pending)>> \o InsertTimer(Tail(pending), t)
         ELSE <<t>> \o pending

\* connectedLinks.forEach((l, i) => setTimeout(..., i * 150))
RECURSIVE ScheduleTimers(_, _, _, _, _)
ScheduleTimers(pending, targets, i, now, depth) ==
    IF i > Len(targets)
    THEN pending
    ELSE \* (the list with the new timer is bound as a value, so that it is computed once)
         CHOOSE r \in { ScheduleTimers(p, targets, i + 1, now, depth) :
                           p \in {InsertTimer(pending,
                                              [due |-> now + (i - 1) * pulseStagger,
                                               kind |-> "pulse",
                                               target |-> targets[i], depth |-> depth])} } :
             TRUE

\* (a cascade that does not look at its visited set)
propagateFeedbackNoVisited(sourceId, depth, c, now) ==
    IF depth > maxDepth
    THEN c
    ELSE [links   |-> c.links,
          visited |-> c.visited \cup {sourceId},
          timers  |-> CHOOSE r \in { ScheduleTimers(c.timers, targets, 1, now, depth) :
                                        targets \in {Outgoing(sourceId, c.links)} } : TRUE,
          log     |-> Append(c.log, <<sourceId, depth>>)]

\* propagateFeedback(sourceId, nodeSelection, depth, visited) called at time
\* now in cascade c
propagateFeedback(sourceId, depth, c, now) ==
    IF depth > maxDepth \/ sourceId \in c.visited
    THEN c
    ELSE [links   |-> c.links,
          visited |-> c.visited \cup {sourceId},
          timers  |-> CHOOSE r \in { ScheduleTimers(c.timers, targets, 1, now, depth) :
                                        targets \in {Outgoing(sourceId, c.links)} } : TRUE,
          log     |-> Append(c.log, <<sourceId, depth>>)]

\* the callback of the first timer of cascade c: the outer callback pulses
\* the target and sets the inner timer, the inner one goes on from the target
FireTimer(c) ==
    LET t    == Head(c.timers)
        rest == Tail(c.timers)
    IN  IF t.kind = "pulse"
        THEN [c EXCEPT !.timers =
                 InsertTimer(rest, [due |-> t.due + propagateDelay, kind |-> "propagate",
                                    target |-> t.target, depth |-> t.depth])]
        ELSE CHOOSE r \in { propagateFeedback(t.target, t.depth + 1, c2, t.due) :
                               c2 \in {[c EXCEPT !.timers = rest]} } : TRUE

\* the places of pulses whose cascade has run out
FreeSlots == { i \in DOMAIN pulses : pulses[i].timers = <<>> }

\* propagateFeedback(d.id, node) with depth = 0 and visited = new Set()
StartCascade(d) ==
    LET i == CHOOSE j \in FreeSlots : \A k \in FreeSlots : j <= k
    IN  [pulses EXCEPT ![i] = propagateFeedback(d, 0, [EmptyCascade EXCEPT !.links = currentLinks], 0)]

\* a click on a node
handleNodeClick2D(d) ==
    /\ d \in Range(nodeIds)
    /\ IF activeNodeRef = d
       THEN /\ activeNodeRef' = Null
            /\ nodePath' = <<>>
            /\ UNCHANGED pulses
       ELSE /\ FreeSlots # {}
            /\ activeNodeRef' = d
            /\ nodePath' = findNodePaths(d, currentLinks)
            /\ pulses' = StartCascade(d)
    /\ UNCHANGED <<currentLinks, isRandomized, originalLinksRef,
                   pathVars, layerVars, randVars, sessVars, auxVars>>

\* a timer of one of the cascades fires
PulseTimer(i) ==
    /\ i \in DOMAIN pulses
    /\ pulses[i].timers # <<>>
    /\ \E c \in {pulses[i]} : pulses' = [pulses EXCEPT ![i] = FireTimer(c)]
    /\ UNCHANGED <<activeNodeRef, nodePath, currentLinks, isRandomized, originalLinksRef,
                   pathVars, layerVars, randVars, sessVars, auxVars>>

\* svg.on('click', ...): a click outside the nodes
svgClick ==
    /\ activeNodeRef' = Null
    /\ nodePath' = <<>>
    /\ UNCHANGED <<currentLinks, isRandomized, originalLinksRef, pulses,
                   pathVars, layerVars, randVars, sessVars, auxVars>>

\* the Reset System button
resetSimulation ==
    /\ activeNodeRef' = Null
    /\ nodePath' = <<>>
    /\ UNCHANGED <<currentLinks, isRandomized, originalLinksRef, pulses,
                   pathVars, layerVars, randVars, sessVars, auxVars>>

\* the Random Input button
randomPulse ==
    /\ nodeIds # <<>>
    /\ \E randomNode \in Range(nodeIds) : activeNodeRef' = randomNode
    /\ UNCHANGED <<nodePath, currentLinks, isRandomized, originalLinksRef, pulses,
                   pathVars, layerVars, randVars, sessVars, auxVars>>

\* (a toggle whose restore leaves the generated links in place)
toggleRandomizeKeepsGenerated ==
    /\ IF isRandomized
       THEN /\ UNCHANGED currentLinks
            /\ isRandomized' = FALSE
       ELSE /\ \E randomLinks \in RandomizeResults(nodeIds) : currentLinks' = randomLinks
            /\ isRandomized' = TRUE
    /\ activeNodeRef' = Null
    /\ nodePath' = <<>>
    /\ UNCHANGED <<originalLinksRef, pulses,
                   pathVars, layerVars, randVars, sessVars, auxVars>>

\* the Randomize Connections / Restore Original button (on one to three
\* nodes randomizeConnections does not return, and the handler with it)
toggleRandomize ==
    /\ isRandomized \/ Len(nodeIds) \notin 1..3
    /\ IF isRandomized
       THEN /\ currentLinks' = originalLinksRef
            /\ isRandomized' = FALSE
       ELSE /\ \E randomLinks \in RandomizeResults(nodeIds) : currentLinks' = randomLinks
            /\ isRandomized' = TRUE
    /\ activeNodeRef' = Null
    /\ nodePath' = <<>>
    /\ UNCHANGED <<originalLinksRef, pulses,
                   pathVars, layerVars, randVars, sessVars, auxVars>>

\* state after the first render: currentLinks is processedLinks, and
\* originalLinksRef a copy of it
NetInit ==
    /\ nodeIds = NetNodeIds
    /\ currentLinks \in NetLinkLists
    /\ originalLinksRef = currentLinks
    /\ isRandomized = FALSE
    /\ activeNodeRef = Null
    /\ nodePath = <<>>
    /\ pulses = [i \in 1..MaxPropagations |-> EmptyCascade]
    /\ newLinks = EmptyBag
    /\ usedPairs = {}
    /\ outgoingCount = << >>
    /\ incomingCount = << >>
    /\ targetNumLinks = 0
    /\ attempts = 0
    /\ loopIdx = 0
    /\ rpc = "idle"
    /\ PathIdle
    /\ LayersIdle
    /\ SessIdle
    /\ ScoreIdle
    /\ TravIdle
    /\ LayoutIdle
    /\ NormalizeIdle

NetNext ==
    \/ \E d \in Range(NodePool) : handleNodeClick2D(d)
    \/ \E i \in 1..MaxPropagations : PulseTimer(i)
    \/ svgClick
    \/ resetSimulation
    \/ randomPulse
    \/ toggleRandomize

NetSpec == NetInit /\ [][NetNext]_vars

(***************************************************************************)
(* C28: in the 2D network the active-node reference is non-null exactly    *)
(* when the displayed path (nodePath) is non-empty, after any sequence of  *)
(* node clicks, background clicks, Reset System, Random Input and          *)
(* Randomize / Restore; so a click on a node with no path displayed        *)
(* selects it.                                                             *)
(***************************************************************************)
X28_ActiveRefIffPathShown == (activeNodeRef # Null) <=> (nodePath # <<>>)

\* the consequence the claim draws: a click on a node while no path is
\* displayed selects the node and displays its path
ClickWithoutPathSelects ==
    [][\A d \in Range(NodePool) :
          (handleNodeClick2D(d) /\ nodePath = <<>>) =>
              (activeNodeRef' = d /\ nodePath' # <<>>)]_vars

(***************************************************************************)
(* propagateFeedback on its own: cascades are started on any node of a     *)
(* five-node network, one after another or together, and their timers      *)
(* fire.                                                                   *)
(***************************************************************************)
\* link lists the cascades are run on: a cycle through the five nodes, a
\* list with a repeated link and a cycle of two, and a generated list
PulseLinkLists ==
    { <<Link("a", "b"), Link("b", "c"), Link("c", "d"), Link("d", "e"), Link("e", "a")>>,
      <<Link("a", "b"), Link("a", "b"), Link("b", "a"), Link("a", "c")>>,
      GeneratedLinks(NodePool) }

PulseInit ==
    /\ nodeIds = NodePool
    /\ currentLinks \in PulseLinkLists
    /\ originalLinksRef = currentLinks
    /\ isRandomized = FALSE
    /\ activeNodeRef = Null
    /\ nodePath = <<>>
    /\ pulses = [i \in 1..MaxPropagations |-> EmptyCascade]
    /\ newLinks = EmptyBag
    /\ usedPairs = {}
    /\ outgoingCount = << >>
    /\ incomingCount = << >>
    /\ targetNumLinks = 0
    /\ attempts = 0
    /\ loopIdx = 0
    /\ rpc = "idle"
    /\ PathIdle
    /\ LayersIdle
    /\ SessIdle
    /\ ScoreIdle
    /\ TravIdle
    /\ LayoutIdle
    /\ NormalizeIdle

\* the call propagateFeedback(d.id, node) of handleNodeClick
PulseStart(d) ==
    /\ d \in Range(nodeIds)
    /\ FreeSlots # {}
    /\ pulses' = StartCascade(d)
    /\ UNCHANGED <<activeNodeRef, nodePath, currentLinks, isRandomized, originalLinksRef,
                   pathVars, layerVars, randVars, sessVars, auxVars>>

PulseNext ==
    \/ \E d \in Range(NodePool) : PulseStart(d)
    \/ \E i \in 1..MaxPropagations : PulseTimer(i)

PulseSpec == PulseInit /\ [][PulseNext]_vars

\* a timer that is due fires
FairPulseSpec == PulseSpec /\ \A i \in 1..MaxPropagations : WF_vars(PulseTimer(i))

\* the expansions of one cascade: no node twice, none below depth 3, no
\* more than there are nodes; and no timer is set from below depth 3
CascadeBounded(c) ==
    /\ \A j, k \in DOMAIN c.log : j # k => c.log[j][1] # c.log[k][1]
    /\ \A j \in DOMAIN c.log : c.log[j][2] \in 0..3
    /\ Len(c.log) <= Len(nodeIds)
    /\ \A j \in DOMAIN c.timers : c.timers[j].depth \in 0..3

CascadeStoppedByVisited ==
    \E i \in DOMAIN pulses :
        /\ pulses[i].timers = <<>>
        /\ Len(pulses[i].log) >= 2
        /\ \E l \in Range(pulses[i].links) :
              l.source = pulses[i].log[2][1] /\ l.target = pulses[i].log[1][1]

(***************************************************************************)
(* Randomize Connections / Restore Original.                               *)
(***************************************************************************)
\* ls has the marks of a list made by randomizeConnections on the nodes of
\* the session: three links out of and into every node, no link from a node
\* to itself, no pair twice
IsGeneratedSet(ls) ==
    /\ \A id \in Range(nodeIds) :
          /\ Cardinality({ i \in DOMAIN ls : ls[i].source = id }) >= minConnectionsPerNode
          /\ Cardinality({ i \in DOMAIN ls : ls[i].target = id }) >= minConnectionsPerNode
    /\ \A i \in DOMAIN ls : ls[i].source # ls[i].target
    /\ \A i, j \in DOMAIN ls : i # j => ls[i] # ls[j]

\* the link list in every state: the generated one while isRandomized is
\* set, and otherwise the list kept since startup, pair by pair
LinksMatchFlag ==
    /\ isRandomized <=> IsGeneratedSet(currentLinks)
    /\ ~isRandomized => currentLinks = originalLinksRef
    /\ originalLinksRef \in NetLinkLists

\* every step: the list kept since startup is never written; the link list
\* changes only with the flag; a restore puts the startup list back; and a
\* toggle leaves no active node and no path
ToggleStep ==
    /\ originalLinksRef' = originalLinksRef
    /\ currentLinks' # currentLinks => isRandomized' # isRandomized
    /\ (isRandomized /\ ~isRandomized') => currentLinks' = originalLinksRef
    /\ isRandomized' # isRandomized => (activeNodeRef' = Null /\ nodePath' = <<>>)

(***************************************************************************)
(* C30: Randomize Connections followed by Restore Original makes the       *)
(* current link list equal to the list loaded at startup (same pairs, same *)
(* order), however many cycles came before; isRandomized is true exactly   *)
(* when the current links are a generated set; and every toggle clears the *)
(* active node and the displayed path.                                     *)
(***************************************************************************)
C30_RestoreGivesStartupLinks == [](LinksMatchFlag) /\ [][ToggleStep]_vars

\* the startup links are current again, no node is active, and a cascade
\* that was started on the generated links is still on record: the session
\* has been through Randomize, a node click and Restore
W30_RestoredAfterRandomize ==
    /\ ~isRandomized
    /\ currentLinks = originalLinksRef
    /\ activeNodeRef = Null
    /\ nodePath = <<>>
    /\ \E i \in DOMAIN pulses : IsGeneratedSet(pulses[i].links)

(***************************************************************************)
(* The whole model: either routine, on any of its inputs.                  *)
(***************************************************************************)
Init == LayersInit \/ RandomizeInit \/ SessionInit \/ ScoreInit \/ StoreInit
        \/ TraverseInit \/ LayoutInit \/ NormalizeInit \/ PathInit
        \/ NetInit \/ PulseInit

Next == LayersNext \/ RandomizeNext \/ SessionNext \/ ScoreNext \/ StoreNext
        \/ TraverseNext \/ LayoutNext \/ NormalizeNext \/ PathNext
        \/ NetNext \/ PulseNext

Spec == Init /\ [][Next]_vars

====
